---- MODULE Spec2Model ----
(***************************************************************************)
(* Model of the visual regression engine: VisualComparisonEngine           *)
(* (src/src/index.js), ImageComparator (src/src/core/ImageComparator.js),  *)
(* ImageProcessor, ClusterAnalyzer and the error classes                   *)
(* (src/unnamed/part_002), with the command-line tool (src/bin/cli.js)     *)
(* and the p5 variant P5VisualCompare (src/index.ts).                      *)
(*                                                                         *)
(* The async functions of the code run from one await to the next without  *)
(* a break, and between two awaits any other call in flight may run.  The  *)
(* state holds one frame per call in flight; an action is the run of one   *)
(* call from an await to the next.                                         *)
(*                                                                         *)
(* Ratios the code keeps as JavaScript numbers in [0,1] (threshold, alpha, *)
(* lineShiftThreshold) are kept in hundredths: 0.8 is 80.  A comparison    *)
(* a / b > t of the code is a * 100 > t * b here.  The scale factor of the *)
(* ImageProcessor is a fraction <<numerator, denominator>> that stands for *)
(* the double nearest to it, which is what the division of the code gives. *)
(***************************************************************************)
EXTENDS Integers, Sequences, FiniteSets, TLC

VARIABLES given, options, frames, images

vars == <<given, options, frames, images>>

(***************************************************************************)
(* Bounds of the explored inputs.                                          *)
(***************************************************************************)
\* largest width / height of an input image
MaxDim == 2
\* on a canvas of at most MaxMaskSide x MaxMaskSide pixels the diff mask
\* provider is explored with every set of pixels, on a larger canvas with
\* the sets made of a few patches (ExploredMasks)
MaxMaskSide == 3
\* longest list of pairs handed to batchCompare
MaxPairs == 2
\* most calls in flight at a time
MaxCalls == 2
\* the longest side of a p5.Image in the calls of checkMatch explored
MaxCanvasSide == 1600

(***************************************************************************)
(* Small helpers.                                                          *)
(***************************************************************************)
Min(a, b) == IF a <= b THEN a ELSE b

Max(a, b) == IF a >= b THEN a ELSE b

(***************************************************************************)
(* JavaScript numbers.  maxSide / side and side * scale are computed in    *)
(* doubles (53 bits, round to nearest), so Math.ceil(side * scale) can be  *)
(* one above the ceiling of the exact product: 11 * (800 / 11) is          *)
(* 800.0000000000001.  The operators below work out the rounding with the  *)
(* remainders of the exact division; they hold for fractions and sides     *)
(* with side * numerator below 2^31.                                       *)
(***************************************************************************)
RECURSIVE Log2Floor(_)
\* the exponent of the double n, n >= 1: the e with 2^e <= n < 2^(e + 1)
Log2Floor(n) == IF n < 2 THEN 0 ELSE 1 + Log2Floor(n \div 2)

RECURSIVE ExponentOf(_, _)
\* the exponent of the quotient num / den: the e with
\* 2^e <= num / den < 2^(e + 1)
ExponentOf(num, den) ==
  IF num >= 2 * den THEN 1 + ExponentOf(num, 2 * den)
  ELSE IF num < den THEN ExponentOf(2 * num, den) - 1
  ELSE 0

RECURSIVE TimesPow2Mod(_, _, _)
\* (n * 2^k) % d
TimesPow2Mod(n, k, d) ==
  IF k = 0 THEN n % d ELSE TimesPow2Mod((2 * n) % d, k - 1, d)

\* the double num / den less the exact quotient, in units of
\* 1 / (den * 2^(52 - e)), e the exponent of the quotient: the division
\* keeps the 53 leading bits of the quotient and rounds to the nearest (the
\* remainder is never one half: that takes a numerator of 54 bits)
RoundingOf(num, den) ==
  LET rem == TimesPow2Mod(num, 52 - ExponentOf(num, den), den)
  IN IF 2 * rem > den THEN den - rem ELSE 0 - rem

\* Math.ceil(side * scale) for the double scale nearest to
\* scale[1] / scale[2].  Where the exact product is no integer, the product
\* in doubles lies between the same two integers.  Where it is an integer
\* n, the product in doubles is above n exactly if the scale was rounded up
\* by more than half a unit in the last place of n.
MathCeilTimes(side, scale) ==
  LET num == scale[1]
      den == scale[2]
      n == (side * num) \div den
  IN IF (side * num) % den # 0 THEN n + 1
     ELSE IF n = 0 THEN 0
     ELSE IF side * RoundingOf(num, den) * 2
               > den * 2 ^ (Log2Floor(n) - ExponentOf(num, den))
     THEN n + 1
     ELSE n

RECURSIVE SumSizes(_)
RECURSIVE SumSizes_ofBounds(_)
\* variant: the pixels of the bounding boxes are summed
SumSizes_ofBounds(cs) ==
  IF cs = <<>> THEN 0
  ELSE Head(cs).bounds.width * Head(cs).bounds.height
         + SumSizes_ofBounds(Tail(cs))

\* clusters.reduce((sum, cluster) => sum + cluster.size, 0)
SumSizes(cs) == IF cs = <<>> THEN 0 ELSE Head(cs).size + SumSizes(Tail(cs))

\* object spread { ...p, ...q }: key by key, q wins
Spread(p, q) ==
  [k \in DOMAIN p \cup DOMAIN q |-> IF k \in DOMAIN q THEN q[k] ELSE p[k]]

NoOptions == [k \in {} |-> 0]

(***************************************************************************)
(* Errors (src/unnamed/part_002, 240-258).  A message is a sequence of     *)
(* string fragments, so that `Comparison failed: ${error.message}` is the  *)
(* concatenation of the prefix and the wrapped message.                    *)
(***************************************************************************)
Error(message) == [name |-> "Error", message |-> message, cause |-> <<>>]

ValidationError(message) ==
  [name |-> "ValidationError", message |-> message, cause |-> <<>>]

\* the cause is kept as a one-element sequence holding the wrapped error
ComparisonError(message, cause) ==
  [name |-> "ComparisonError", message |-> message, cause |-> <<cause>>]

(***************************************************************************)
(* Configuration (src/src/index.js, 5-20).                                 *)
(***************************************************************************)
\* the literals on the right of || in the constructor
DefaultOptions ==
  [threshold |-> 50,
   includeAA |-> FALSE,
   alpha |-> 10,
   maxSide |-> 400,
   backgroundColor |-> <<240, 240, 240, 255>>,
   minClusterSize |-> 4,
   maxTotalDiffPixels |-> 40,
   maxSignificantClusters |-> 2,
   lineShiftThreshold |-> 80]

\* options.k || dflt, for a numeric key: absent (undefined) and 0 are falsy
OrDefault(o, k, dflt) == IF k \in DOMAIN o /\ o[k] # 0 THEN o[k] ELSE dflt

\* options.k !== undefined ? options.k : dflt, and options.k || dflt for a
\* key whose values are all truthy (an array)
IfDefined(o, k, dflt) == IF k \in DOMAIN o THEN o[k] ELSE dflt

\* this.options of VisualComparisonEngine: the nine defaulted keys, then
\* ...options on top of them
Constructor(o) ==
  Spread(
    [threshold |-> OrDefault(o, "threshold", DefaultOptions.threshold),
     includeAA |-> IfDefined(o, "includeAA", DefaultOptions.includeAA),
     alpha |-> OrDefault(o, "alpha", DefaultOptions.alpha),
     maxSide |-> OrDefault(o, "maxSide", DefaultOptions.maxSide),
     backgroundColor |->
       IfDefined(o, "backgroundColor", DefaultOptions.backgroundColor),
     minClusterSize |->
       OrDefault(o, "minClusterSize", DefaultOptions.minClusterSize),
     maxTotalDiffPixels |->
       OrDefault(o, "maxTotalDiffPixels", DefaultOptions.maxTotalDiffPixels),
     maxSignificantClusters |->
       OrDefault(o, "maxSignificantClusters",
                 DefaultOptions.maxSignificantClusters),
     lineShiftThreshold |->
       OrDefault(o, "lineShiftThreshold", DefaultOptions.lineShiftThreshold)],
    o)

(***************************************************************************)
(* Input images.  kind is the shape _toCanvas probes for: "canvas" has a   *)
(* getContext function, "imageData" a data array, "buffer" is a Buffer     *)
(* (width and height are those of the image it decodes to), "image" an     *)
(* object with a src; "null" is a missing (falsy) argument, "string" a     *)
(* truthy value of no accepted shape.                                      *)
(***************************************************************************)
NullImage == [kind |-> "null", width |-> 0, height |-> 0]

StringInput == [kind |-> "string", width |-> 0, height |-> 0]

Canvas(w, h) == [kind |-> "canvas", width |-> w, height |-> h]

ImageData(w, h) == [kind |-> "imageData", width |-> w, height |-> h]

EncodedBuffer(w, h) == [kind |-> "buffer", width |-> w, height |-> h]

\* an Image object of the canvas library, as loadImage returns it; src is
\* what it was loaded from, "" for an Image that was never given one
Image(w, h, src) == [kind |-> "image", width |-> w, height |-> h, src |-> src]

\* typeof input
TypeOf(input) == IF input.kind = "string" THEN "string" ELSE "object"

(***************************************************************************)
(* ImageProcessor (src/unnamed/part_002, 3-98).  A canvas is its width and *)
(* height; an ImageData is width, height and the length of its data.       *)
(***************************************************************************)
createCanvas(w, h) == [width |-> w, height |-> h]

\* canvas.getContext('2d').getImageData(0, 0, w, h)
getImageData(canvas, w, h) ==
  [width |-> w, height |-> h, dataLength |-> w * h * 4]

Threw(error) == [threw |-> TRUE, error |-> error]

_toCanvas(input) ==
  IF input.kind = "canvas" /\ input.width # 0 /\ input.height # 0
  THEN [threw |-> FALSE, canvas |-> createCanvas(input.width, input.height)]
  ELSE IF input.kind = "imageData" /\ input.width # 0 /\ input.height # 0
  THEN [threw |-> FALSE, canvas |-> createCanvas(input.width, input.height)]
  ELSE IF input.kind = "buffer"
  THEN [threw |-> FALSE, canvas |-> createCanvas(input.width, input.height)]
  ELSE IF input.kind = "image" /\ input.width # 0 /\ input.height # 0
          /\ input.src # ""
  THEN [threw |-> FALSE, canvas |-> createCanvas(input.width, input.height)]
  ELSE Threw(Error(<<"Unsupported image input type: ", TypeOf(input),
                     ". Expected Canvas, ImageData, Buffer, or Image object.">>))

\* Math.min of two quotients with positive denominators: the double of
\* the smaller quotient is the smaller double
FracMin(p, q) == IF p[1] * q[2] <= q[1] * p[2] THEN p ELSE q

\* variant: the scale is not doubled for an image that is not square
_calculateScale_neverDoubled(canvas, maxSide) ==
  FracMin(<<maxSide, canvas.width>>, <<maxSide, canvas.height>>)

_calculateScale(canvas, maxSide) ==
  LET scale == FracMin(<<maxSide, canvas.width>>, <<maxSide, canvas.height>>)
      narrow == canvas.width # canvas.height
  IN IF narrow THEN <<scale[1] * 2, scale[2]>> ELSE scale

_resizeImage(canvas, scale) ==
  LET newWidth == MathCeilTimes(canvas.width, scale)
      newHeight == MathCeilTimes(canvas.height, scale)
  IN createCanvas(newWidth, newHeight)

_createStandardizedCanvas(sourceCanvas, width, height, backgroundColor) ==
  createCanvas(width, height)

\* variant: the actual image is read back at its own resized size
StandardizeBoth_ownSize(resizedActual, resizedExpected, opts) ==
  LET width == resizedExpected.width
      height == resizedExpected.height
      processedActual ==
        _createStandardizedCanvas(resizedActual, resizedActual.width,
                                  resizedActual.height, opts.backgroundColor)
      processedExpected ==
        _createStandardizedCanvas(resizedExpected, width, height,
                                  opts.backgroundColor)
  IN [threw |-> FALSE,
      actualImageData |-> getImageData(processedActual, resizedActual.width,
                                       resizedActual.height),
      expectedImageData |-> getImageData(processedExpected, width, height),
      width |-> width,
      height |-> height]

\* processImages from the two resized canvases on: the canvases of the
\* size of the resized expected image, their pixels, the return value
StandardizeBoth(resizedActual, resizedExpected, opts) ==
  LET width == resizedExpected.width
      height == resizedExpected.height
      processedActual ==
        _createStandardizedCanvas(resizedActual, width, height,
                                  opts.backgroundColor)
      processedExpected ==
        _createStandardizedCanvas(resizedExpected, width, height,
                                  opts.backgroundColor)
  IN [threw |-> FALSE,
      actualImageData |-> getImageData(processedActual, width, height),
      expectedImageData |-> getImageData(processedExpected, width, height),
      width |-> width,
      height |-> height]

\* processImages from the two awaited _toCanvas results on: an error of
\* either leaves the function, else both are resized by the one scale
ResizeBoth(actualCanvas, expectedCanvas, opts) ==
  IF actualCanvas.threw THEN Threw(actualCanvas.error)
  ELSE IF expectedCanvas.threw THEN Threw(expectedCanvas.error)
  ELSE LET scale == _calculateScale(expectedCanvas.canvas, opts.maxSide)
       IN StandardizeBoth(_resizeImage(actualCanvas.canvas, scale),
                          _resizeImage(expectedCanvas.canvas, scale), opts)

processImages(actual, expected, opts) ==
  ResizeBoth(_toCanvas(actual), _toCanvas(expected), opts)

(***************************************************************************)
(* Byte arrays (Uint8ClampedArray).  An array is its length, the bytes     *)
(* that were written one by one (bytes, a function from their indices) and *)
(* the four bytes every other pixel holds (rest): the array of a canvas    *)
(* holds 4 bytes per pixel, row-major, indexed from 0.                     *)
(***************************************************************************)
ByteAt(buffer, i) ==
  IF i \in DOMAIN buffer.bytes THEN buffer.bytes[i]
  ELSE buffer.rest[(i % 4) + 1]

\* the array after buffer[i] = v
WriteByte(buffer, i, v) ==
  [buffer EXCEPT !.bytes = [j \in (DOMAIN buffer.bytes) \cup {i} |->
                              IF j = i THEN v ELSE buffer.bytes[j]]]

\* the pixels of the array that hold a byte written one by one
WrittenPixels(buffer) == { i \div 4 : i \in DOMAIN buffer.bytes }

(***************************************************************************)
(* Diff mask provider (pixelmatch, an external library).  Given the set    *)
(* diff of pixels it finds differing, it returns their number (pixelmatch) *)
(* and leaves in the output buffer (diffBufferAfter) opaque red at each of *)
(* them and the grey of the blended image elsewhere; on a white image that *)
(* grey is 255, 255, 255.                                                  *)
(***************************************************************************)
MarkerPixel == <<255, 0, 0, 255>>

GreyPixel == <<255, 255, 255, 255>>

pixelmatch(diff, width, height) == Cardinality(diff)

diffBufferAfter(diff, width, height) ==
  [length |-> width * height * 4,
   rest |-> GreyPixel,
   bytes |-> [i \in UNION { LET pos == (at.y * width + at.x) * 4
                            IN pos .. (pos + 3) : at \in diff } |->
                MarkerPixel[(i % 4) + 1]]]

(***************************************************************************)
(* ClusterAnalyzer (src/unnamed/part_002, 101-237).                        *)
(***************************************************************************)
_isDiffPixel(buffer, pos) ==
  ByteAt(buffer, pos) = 255 /\ ByteAt(buffer, pos + 1) = 0
    /\ ByteAt(buffer, pos + 2) = 0

\* variant: the four neighbours that share an edge only
Neighbours_fourConnected == << <<0, -1>>, <<-1, 0>>, <<1, 0>>, <<0, 1>> >>

\* <<dx, dy>> in the order of the loops: dy = -1..1 outside, dx = -1..1
\* inside, <<0, 0>> skipped
Neighbours ==
  << <<-1, -1>>, <<0, -1>>, <<1, -1>>,
     <<-1, 0>>, <<1, 0>>,
     <<-1, 1>>, <<0, 1>>, <<1, 1>> >>

InBounds(nx, ny, width, height) ==
  nx >= 0 /\ nx < width /\ ny >= 0 /\ ny < height

RECURSIVE CountNeighbours(_, _, _, _, _, _)
\* the number of diff pixels among the in-bounds neighbours k..8 of (x, y)
CountNeighbours(buffer, x, y, width, height, k) ==
  IF k > Len(Neighbours) THEN 0
  ELSE LET nx == x + Neighbours[k][1]
           ny == y + Neighbours[k][2]
           npos == (ny * width + nx) * 4
       IN (IF InBounds(nx, ny, width, height) /\ _isDiffPixel(buffer, npos)
           THEN 1 ELSE 0)
          + CountNeighbours(buffer, x, y, width, height, k + 1)

RECURSIVE CountLinelike(_, _, _, _)
RECURSIVE CountLinelike_upToThree(_, _, _, _)
\* variant: a pixel with three differing neighbours is line-like as well
CountLinelike_upToThree(clusterPixels, buffer, width, height) ==
  IF clusterPixels = <<>> THEN 0
  ELSE LET p == Head(clusterPixels)
           neighbors == CountNeighbours(buffer, p.x, p.y, width, height, 1)
       IN (IF neighbors <= 3 THEN 1 ELSE 0)
          + CountLinelike_upToThree(Tail(clusterPixels), buffer, width, height)

\* linelikePixels after the loop over clusterPixels
CountLinelike(clusterPixels, buffer, width, height) ==
  IF clusterPixels = <<>> THEN 0
  ELSE LET p == Head(clusterPixels)
           neighbors == CountNeighbours(buffer, p.x, p.y, width, height, 1)
       IN (IF neighbors <= 2 THEN 1 ELSE 0)
          + CountLinelike(Tail(clusterPixels), buffer, width, height)

\* thisOptions is this.options of the ClusterAnalyzer: the options object
\* it was constructed with
_detectLineShift(clusterPixels, buffer, width, height, thisOptions) ==
  IF Len(clusterPixels) = 0 THEN FALSE
  ELSE LET linelikePixels == CountLinelike(clusterPixels, buffer, width, height)
       IN linelikePixels * 100
            > thisOptions.lineShiftThreshold * Len(clusterPixels)

RECURSIVE MinOf(_, _, _)
MinOf(pixels, c, m) ==
  IF pixels = <<>> THEN m ELSE MinOf(Tail(pixels), c, Min(m, Head(pixels)[c]))

RECURSIVE MaxOf(_, _, _)
MaxOf(pixels, c, m) ==
  IF pixels = <<>> THEN m ELSE MaxOf(Tail(pixels), c, Max(m, Head(pixels)[c]))

\* variant: width and height are the differences of the extremes
_calculateBounds_spans(pixels) ==
  IF Len(pixels) = 0 THEN [minX |-> 0, minY |-> 0, maxX |-> 0, maxY |-> 0]
  ELSE LET minX == MinOf(pixels, "x", pixels[1].x)
           maxX == MaxOf(pixels, "x", pixels[1].x)
           minY == MinOf(pixels, "y", pixels[1].y)
           maxY == MaxOf(pixels, "y", pixels[1].y)
       IN [minX |-> minX, minY |-> minY, maxX |-> maxX, maxY |-> maxY,
           width |-> maxX - minX, height |-> maxY - minY]

_calculateBounds(pixels) ==
  IF Len(pixels) = 0 THEN [minX |-> 0, minY |-> 0, maxX |-> 0, maxY |-> 0]
  ELSE LET minX == MinOf(pixels, "x", pixels[1].x)
           maxX == MaxOf(pixels, "x", pixels[1].x)
           minY == MinOf(pixels, "y", pixels[1].y)
           maxY == MaxOf(pixels, "y", pixels[1].y)
       IN [minX |-> minX, minY |-> minY, maxX |-> maxX, maxY |-> maxY,
           width |-> maxX - minX + 1, height |-> maxY - minY + 1]

RECURSIVE PushNeighbours(_, _, _, _, _, _)
RECURSIVE PushNeighbours_andSelf(_, _, _, _, _, _)
\* variant: <<0, 0>> is not skipped and the visited set is not looked at
PushNeighbours_andSelf(x, y, width, height, visited, k) ==
  IF k > Len(Neighbours) THEN <<[x |-> x, y |-> y]>>
  ELSE LET nx == x + Neighbours[k][1]
           ny == y + Neighbours[k][2]
       IN (IF InBounds(nx, ny, width, height)
           THEN <<[x |-> nx, y |-> ny]>> ELSE <<>>)
          \o PushNeighbours_andSelf(x, y, width, height, visited, k + 1)

\* the positions queue.push receives for the pixel (x, y), in order
PushNeighbours(x, y, width, height, visited, k) ==
  IF k > Len(Neighbours) THEN <<>>
  ELSE LET nx == x + Neighbours[k][1]
           ny == y + Neighbours[k][2]
           npos == (ny * width + nx) * 4
       IN (IF InBounds(nx, ny, width, height) /\ npos \notin visited
           THEN <<[x |-> nx, y |-> ny]>> ELSE <<>>)
          \o PushNeighbours(x, y, width, height, visited, k + 1)

RECURSIVE FloodFill(_, _, _, _, _, _, _, _)
RECURSIVE FloodFill_erasing(_, _, _, _, _, _, _, _)
\* variant: a pixel taken into the cluster is painted over in the buffer
FloodFill_erasing(buffer, width, height, queue, visited, clusterPixels, size, pushes) ==
  IF Len(queue) = 0
  THEN [visited |-> visited, clusterPixels |-> clusterPixels, size |-> size,
        pushes |-> pushes, buffer |-> buffer]
  ELSE LET at == Head(queue)
           pos == (at.y * width + at.x) * 4
       IN IF pos \in visited \/ ~_isDiffPixel(buffer, pos)
          THEN FloodFill_erasing(buffer, width, height, Tail(queue), visited,
                                 clusterPixels, size, pushes)
          ELSE LET visited2 == visited \cup {pos}
                   pushed == PushNeighbours(at.x, at.y, width, height,
                                            visited2, 1)
               IN FloodFill_erasing(WriteByte(WriteByte(buffer, pos + 1, 255),
                                              pos + 2, 255),
                                    width, height, Tail(queue) \o pushed,
                                    visited2, Append(clusterPixels, at),
                                    size + 1, pushes + Len(pushed))

\* the while loop of _findCluster; pushes counts the entries ever put on
\* the queue, buffer is the buffer as the loop leaves it: the loop reads
\* it and writes no byte of it
FloodFill(buffer, width, height, queue, visited, clusterPixels, size, pushes) ==
  IF Len(queue) = 0
  THEN [visited |-> visited, clusterPixels |-> clusterPixels, size |-> size,
        pushes |-> pushes, buffer |-> buffer]
  ELSE LET at == Head(queue)
           pos == (at.y * width + at.x) * 4
       IN IF pos \in visited \/ ~_isDiffPixel(buffer, pos)
          THEN FloodFill(buffer, width, height, Tail(queue), visited,
                         clusterPixels, size, pushes)
          ELSE LET visited2 == visited \cup {pos}
                   pushed == PushNeighbours(at.x, at.y, width, height,
                                            visited2, 1)
               IN FloodFill(buffer, width, height, Tail(queue) \o pushed,
                            visited2, Append(clusterPixels, at), size + 1,
                            pushes + Len(pushed))

\* _findCluster after its while loop: the cluster returned, with the
\* visited set, the number of queue entries and the buffer as the loop
\* left them
ClusterOf(fill, width, height, thisOptions) ==
  [cluster |-> [size |-> fill.size,
                pixels |-> fill.clusterPixels,
                isLineShift |-> _detectLineShift(fill.clusterPixels,
                                                 fill.buffer, width, height,
                                                 thisOptions),
                bounds |-> _calculateBounds(fill.clusterPixels)],
   visited |-> fill.visited,
   pushes |-> fill.pushes,
   buffer |-> fill.buffer]

_findCluster(buffer, startX, startY, width, height, visited, thisOptions) ==
  ClusterOf(FloodFill(buffer, width, height,
                      <<[x |-> startX, y |-> startY]>>, visited, <<>>, 0, 1),
            width, height, thisOptions)

\* a pixel of the array that holds the bytes of rest is a diff pixel
RestIsDiff(buffer) ==
  _isDiffPixel([length |-> 4, rest |-> buffer.rest, bytes |-> <<>>], 0)

\* the turn of the loops over x and y that comes after the turns before p
\* and does anything, n when there is none; p counts the turns row by row,
\* p = y * width + x.  A turn at a pixel that is no diff pixel changes
\* nothing, and no pixel that holds the bytes of rest is one: the turns up
\* to the next pixel with a written byte are passed over.
SkipTo(buffer, p, n) ==
  LET later == { q \in WrittenPixels(buffer) : q >= p }
  IN IF p >= n \/ RestIsDiff(buffer) THEN Min(p, n)
     ELSE IF later = {} THEN n
     ELSE CHOOSE q \in later : \A r \in later : q <= r

\* as SkipTo, for turns counted column by column, p = x * height + y
SkipTo_columnMajor(buffer, p, width, height) ==
  LET later == { q \in { (r % width) * height + (r \div width) :
                           r \in WrittenPixels(buffer) } : q >= p }
  IN IF p >= width * height \/ RestIsDiff(buffer)
     THEN Min(p, width * height)
     ELSE IF later = {} THEN width * height
     ELSE CHOOSE q \in later : \A r \in later : q <= r

RECURSIVE ScanClusters(_, _, _, _, _, _, _)
RECURSIVE ScanClusters_forgetVisited(_, _, _, _, _, _, _)
RECURSIVE ScanClusters_columnMajor(_, _, _, _, _, _, _)
\* variant: the pixels a flood fill marked are not kept for the rest of the scan
ScanClusters_forgetVisited(buffer, width, height, p, visited, clusters, thisOptions) ==
  IF p >= width * height THEN [clusters |-> clusters, buffer |-> buffer]
  ELSE LET x == p % width
           y == p \div width
           pos == (y * width + x) * 4
       IN IF _isDiffPixel(buffer, pos) /\ pos \notin visited
          THEN LET found == _findCluster(buffer, x, y, width, height, visited,
                                         thisOptions)
               IN ScanClusters_forgetVisited(found.buffer, width, height,
                    SkipTo(found.buffer, p + 1, width * height), visited,
                    Append(clusters, found.cluster), thisOptions)
          ELSE ScanClusters_forgetVisited(buffer, width, height,
                    SkipTo(buffer, p + 1, width * height), visited,
                    clusters, thisOptions)

\* variant: the scan goes down the columns, x outside and y inside
ScanClusters_columnMajor(buffer, width, height, p, visited, clusters, thisOptions) ==
  IF p >= width * height THEN [clusters |-> clusters, buffer |-> buffer]
  ELSE LET x == p \div height
           y == p % height
           pos == (y * width + x) * 4
       IN IF _isDiffPixel(buffer, pos) /\ pos \notin visited
          THEN LET found == _findCluster(buffer, x, y, width, height, visited,
                                         thisOptions)
               IN ScanClusters_columnMajor(found.buffer, width, height,
                    SkipTo_columnMajor(found.buffer, p + 1, width, height),
                    found.visited, Append(clusters, found.cluster), thisOptions)
          ELSE ScanClusters_columnMajor(buffer, width, height,
                    SkipTo_columnMajor(buffer, p + 1, width, height),
                    visited, clusters, thisOptions)

\* the two nested loops of analyzeClusters from the turn p = y * width + x
\* on: the clusters pushed, and the buffer as the loops leave it
ScanClusters(buffer, width, height, p, visited, clusters, thisOptions) ==
  IF p >= width * height THEN [clusters |-> clusters, buffer |-> buffer]
  ELSE LET x == p % width
           y == p \div width
           pos == (y * width + x) * 4
       IN IF _isDiffPixel(buffer, pos) /\ pos \notin visited
          THEN LET found == _findCluster(buffer, x, y, width, height, visited,
                                         thisOptions)
               IN ScanClusters(found.buffer, width, height,
                    SkipTo(found.buffer, p + 1, width * height),
                    found.visited, Append(clusters, found.cluster), thisOptions)
          ELSE ScanClusters(buffer, width, height,
                    SkipTo(buffer, p + 1, width * height), visited,
                    clusters, thisOptions)

\* variant: the size test is the wrong way round
IsSignificant_atMost(cluster, opts) ==
  ~cluster.isLineShift /\ cluster.size <= opts.minClusterSize

\* variant: a cluster of exactly minClusterSize pixels is not significant
IsSignificant_strict(cluster, opts) ==
  ~cluster.isLineShift /\ cluster.size > opts.minClusterSize

\* cluster => !cluster.isLineShift && cluster.size >= options.minClusterSize
IsSignificant(cluster, opts) ==
  ~cluster.isLineShift /\ cluster.size >= opts.minClusterSize

\* variant: the significant pixels are those of the bounding boxes
Aggregate_ofBounds(clusters, opts) ==
  LET significantClusters == SelectSeq(clusters, LAMBDA c : IsSignificant(c, opts))
      significantPixels == SumSizes_ofBounds(significantClusters)
  IN [clusters |-> clusters,
      significantClusters |-> Len(significantClusters),
      significantPixels |-> significantPixels,
      totalClusters |-> Len(clusters)]

\* analyzeClusters after its scan: the significant clusters and the counts
Aggregate(clusters, opts) ==
  LET significantClusters == SelectSeq(clusters, LAMBDA c : IsSignificant(c, opts))
      significantPixels == SumSizes(significantClusters)
  IN [clusters |-> clusters,
      significantClusters |-> Len(significantClusters),
      significantPixels |-> significantPixels,
      totalClusters |-> Len(clusters)]

analyzeClusters(diffBuffer, width, height, opts, thisOptions) ==
  Aggregate(ScanClusters(diffBuffer, width, height, 0, {}, <<>>,
                         thisOptions).clusters,
            opts)

(***************************************************************************)
(* ImageComparator (src/src/core/ImageComparator.js).  A call's outcome:   *)
(* returned holds the value returned (at most one), thrown the error       *)
(* thrown (at most one), invoked the collaborators the call ran, in order, *)
(* and processed what processImages handed back.                           *)
(***************************************************************************)
Outcome(returned, thrown, invoked, processed) ==
  [returned |-> returned, thrown |-> thrown, invoked |-> invoked,
   processed |-> processed]

NoOutcome == Outcome(<<>>, <<>>, <<>>, <<>>)

_validateInputs(actual, expected) ==
  IF actual.kind = "null" \/ expected.kind = "null"
  THEN <<ValidationError(<<"Both actual and expected images are required">>)>>
  ELSE <<>>

\* variant: the number of significant clusters is not looked at
_evaluateSignificance_pixelsOnly(analysis, opts) ==
  \/ analysis.significantPixels = 0
  \/ analysis.significantPixels <= opts.maxTotalDiffPixels

_evaluateSignificance(analysis, opts) ==
  \/ analysis.significantPixels = 0
  \/ /\ analysis.significantPixels <= opts.maxTotalDiffPixels
     /\ analysis.significantClusters <= opts.maxSignificantClusters

\* compare from the cluster analysis on: the verdict and the result
Report(processedImages, diffCount, clusterAnalysis, mergedOptions) ==
  LET ok == _evaluateSignificance(clusterAnalysis, mergedOptions)
  IN Outcome(<<[ok |-> ok,
                diffCount |-> diffCount,
                diffImageData |-> [width |-> processedImages.width,
                                   height |-> processedImages.height],
                details |->
                  [totalDiffPixels |-> diffCount,
                   significantDiffPixels |-> clusterAnalysis.significantPixels,
                   clusters |-> clusterAnalysis.clusters,
                   analysis |-> clusterAnalysis]]>>,
             <<>>,
             <<"_validateInputs", "processImages", "pixelmatch",
               "analyzeClusters", "_evaluateSignificance">>,
             <<processedImages>>)

\* variant: no early return when the diff count is zero
CompareProcessed_noEarlyReturn(processedImages, mergedOptions, diff, thisOptions) ==
  LET width == processedImages.width
      height == processedImages.height
      diffCount == pixelmatch(diff, width, height)
      diffBuffer == diffBufferAfter(diff, width, height)
  IN IF processedImages.threw
     THEN Outcome(<<>>, <<processedImages.error>>,
                  <<"_validateInputs", "processImages">>, <<>>)
     ELSE Report(processedImages, diffCount,
                 analyzeClusters(diffBuffer, width, height, mergedOptions,
                                 thisOptions),
                 mergedOptions)

\* compare from the awaited processImages on: its error leaves the
\* function; else the diff, the early return on a zero count, the analysis
CompareProcessed(processedImages, mergedOptions, diff, thisOptions) ==
  LET width == processedImages.width
      height == processedImages.height
      diffCount == pixelmatch(diff, width, height)
      diffBuffer == diffBufferAfter(diff, width, height)
  IN IF processedImages.threw
     THEN Outcome(<<>>, <<processedImages.error>>,
                  <<"_validateInputs", "processImages">>, <<>>)
     ELSE IF diffCount = 0
     THEN Outcome(<<[ok |-> TRUE,
                     diffCount |-> 0,
                     diffImageData |-> [width |-> width, height |-> height],
                     details |-> [totalDiffPixels |-> 0,
                                  significantDiffPixels |-> 0,
                                  clusters |-> <<>>]]>>,
                  <<>>,
                  <<"_validateInputs", "processImages", "pixelmatch">>,
                  <<processedImages>>)
     ELSE Report(processedImages, diffCount,
                 analyzeClusters(diffBuffer, width, height, mergedOptions,
                                 thisOptions),
                 mergedOptions)

\* a call of ImageComparator.compare with nothing run between its awaits:
\* diff is what the diff mask provider finds on the two processed images;
\* thisOptions is the options object the comparator and its ClusterAnalyzer
\* were constructed with
ImageComparator_compare(actual, expected, opts, diff, thisOptions) ==
  LET mergedOptions == Spread(thisOptions, opts)
      invalid == _validateInputs(actual, expected)
  IN IF invalid # <<>>
     THEN Outcome(<<>>, invalid, <<"_validateInputs">>, <<>>)
     ELSE CompareProcessed(processImages(actual, expected, mergedOptions),
                           mergedOptions, diff, thisOptions)

(***************************************************************************)
(* VisualComparisonEngine (src/src/index.js).  engineOptions is            *)
(* this.options, the object the engine also handed to its comparator.      *)
(***************************************************************************)
\* variant: the error of the comparator is passed on as it is
Catch_rethrow(r) == r

\* the catch of compare: an error of the comparator is wrapped
Catch(r) ==
  IF r.thrown # <<>>
  THEN Outcome(<<>>,
               <<ComparisonError(<<"Comparison failed: ">>
                                   \o r.thrown[1].message,
                                 r.thrown[1])>>,
               r.invoked, r.processed)
  ELSE r

\* a call of compare with nothing run between its awaits
compare(actual, expected, overrides, diff, engineOptions) ==
  Catch(ImageComparator_compare(actual, expected,
                                Spread(engineOptions, overrides), diff,
                                engineOptions))

\* variant: no catch around the comparison of a pair
PushEntry_noCatch(soFar, pair, r) ==
  IF r.thrown # <<>>
  THEN [results |-> soFar, thrown |-> r.thrown]
  ELSE [results |->
          Append(soFar, Spread([name |-> pair.name], r.returned[1])),
        thrown |-> <<>>]

\* the try and catch of a turn of batchCompare: the entry pushed for what
\* the comparison r of the pair gave, and the error that leaves the turn
\* uncaught (none: the catch takes all)
PushEntry(soFar, pair, r) ==
  IF r.thrown # <<>>
  THEN [results |->
          Append(soFar, [name |-> pair.name,
                         ok |-> FALSE,
                         error |-> r.thrown[1].message]),
        thrown |-> <<>>]
  ELSE [results |->
          Append(soFar, Spread([name |-> pair.name], r.returned[1])),
        thrown |-> <<>>]

(***************************************************************************)
(* The command-line tool (src/bin/cli.js).  args holds what the command    *)
(* line gives: version and help (the flag is there), threshold, and for    *)
(* --baseline and --comparison the file at the path: NotGiven when the     *)
(* argument is not there, MissingFile when fs.existsSync is false, else    *)
(* what fs.readFileSync gives.  The tool is run without --output and       *)
(* --format, so what it prints is JSON; the paths it prints are left out.  *)
(***************************************************************************)
NotGiven == [kind |-> "notGiven", width |-> 0, height |-> 0]

MissingFile == [kind |-> "missing", width |-> 0, height |-> 0]

\* the end of a run of the tool: what it met, the exit code of the
\* process, and what it wrote to stdout and to stderr
Exit(r, code, stdout, stderr) ==
  Spread(r, [exit |-> code, stdout |-> stdout, stderr |-> stderr])

\* the catch of main: the message as JSON, exit code 1
Caught(r) ==
  Exit(r, 1, <<[error |-> r.thrown[1].message]>>, <<>>)

\* main after engine.compare has returned: the JSON output, and the exit
\* code 0 for a result that is ok, 1 for any other
Printed(r, config) ==
  LET result == r.returned[1]
      totalPixels == result.diffImageData.width * result.diffImageData.height
  IN Exit(r, IF result.ok THEN 0 ELSE 1,
          <<[passed |-> result.ok,
             difference |-> IF totalPixels > 0
                            THEN <<result.diffCount, totalPixels>>
                            ELSE <<0, 1>>,
             diffCount |-> result.diffCount,
             threshold |-> config.threshold,
             details |-> result.details]>>,
          <<>>)

(***************************************************************************)
(***************************************************************************)
(* The p5 variant (src/index.ts): P5VisualCompare.  A p5.Image is an       *)
(* object with a width and a height that img.resize changes in place; the  *)
(* images a sketch holds are a sequence, and the arguments of checkMatch   *)
(* are places in it, which may be one and the same.  The result of         *)
(* checkMatch holds ok, the diff canvas and, unless the diff count was     *)
(* zero, details.                                                          *)
(***************************************************************************)
DEFAULT_CONFIG ==
  [MAX_SIDE |-> 800,
   BG_COLOR |-> <<255, 255, 255>>,
   PIXEL_MATCH_OPTIONS |-> [threshold |-> 50, includeAA |-> FALSE,
                            alpha |-> 10],
   MIN_CLUSTER_SIZE |-> 4,
   MAX_TOTAL_DIFF_PIXELS |-> 40]

\* this.config after the constructor
P5VisualCompare(config) ==
  Spread(Spread(DEFAULT_CONFIG, config),
         [PIXEL_MATCH_OPTIONS |->
            Spread(DEFAULT_CONFIG.PIXEL_MATCH_OPTIONS,
                   IF "PIXEL_MATCH_OPTIONS" \in DOMAIN config
                   THEN config.PIXEL_MATCH_OPTIONS ELSE NoOptions)])

p5_Image(w, h) == [width |-> w, height |-> h]

\* the scale of checkMatch, as a fraction
p5_Scale(expected, MAX_SIDE) ==
  LET scale == FracMin(<<MAX_SIDE, expected.width>>,
                       <<MAX_SIDE, expected.height>>)
      narrow == expected.width # expected.height
  IN IF narrow THEN <<scale[1] * 2, scale[2]>> ELSE scale

\* img after img.resize(ceil(width * scale), ceil(height * scale))
p5_Resize(img, scale) ==
  p5_Image(MathCeilTimes(img.width, scale), MathCeilTimes(img.height, scale))

\* the test for the red of the diff mask provider, written out in
\* checkMatch and in findClusterSize
p5_IsRed(pixels, pos) ==
  ByteAt(pixels, pos) = 255 /\ ByteAt(pixels, pos + 1) = 0
    /\ ByteAt(pixels, pos + 2) = 0

RECURSIVE p5_Push(_, _, _, _, _, _, _)
\* the positions queue.push receives for the pixel (x, y): dy and dx run
\* from -radius to radius, the pixel itself is among them
p5_Push(x, y, width, height, radius, visited, k) ==
  LET side == 2 * radius + 1
      nx == x + ((k - 1) % side) - radius
      ny == y + ((k - 1) \div side) - radius
      npos == (ny * width + nx) * 4
  IN IF k > side * side THEN <<>>
     ELSE (IF InBounds(nx, ny, width, height) /\ npos \notin visited
           THEN <<[x |-> nx, y |-> ny]>> ELSE <<>>)
          \o p5_Push(x, y, width, height, radius, visited, k + 1)

RECURSIVE p5_FloodFill(_, _, _, _, _, _, _, _)
\* the while loop of findClusterSize
p5_FloodFill(pixels, width, height, radius, queue, visited, clusterPixels, size) ==
  IF Len(queue) = 0
  THEN [visited |-> visited, clusterPixels |-> clusterPixels, size |-> size]
  ELSE LET at == Head(queue)
           pos == (at.y * width + at.x) * 4
       IN IF pos \in visited
          THEN p5_FloodFill(pixels, width, height, radius, Tail(queue),
                            visited, clusterPixels, size)
          ELSE IF ~p5_IsRed(pixels, pos)
          THEN p5_FloodFill(pixels, width, height, radius, Tail(queue),
                            visited, clusterPixels, size)
          ELSE LET visited2 == visited \cup {pos}
                   pushed == p5_Push(at.x, at.y, width, height, radius,
                                     visited2, 1)
               IN p5_FloodFill(pixels, width, height, radius,
                               Tail(queue) \o pushed, visited2,
                               Append(clusterPixels, at), size + 1)

RECURSIVE p5_Neighbors(_, _, _, _, _, _)
\* neighbors after the loops over dy and dx from the k-th turn on: the red
\* pixels among the in-bounds neighbours of (x, y), itself skipped
p5_Neighbors(pixels, x, y, width, height, k) ==
  LET nx == x + ((k - 1) % 3) - 1
      ny == y + ((k - 1) \div 3) - 1
      npos == (ny * width + nx) * 4
  IN IF k > 9 THEN 0
     ELSE (IF /\ ~(nx = x /\ ny = y)
              /\ InBounds(nx, ny, width, height)
              /\ p5_IsRed(pixels, npos)
           THEN 1 ELSE 0)
          + p5_Neighbors(pixels, x, y, width, height, k + 1)

RECURSIVE p5_Linelike(_, _, _, _)
\* linelikePixels after the loop over clusterPixels
p5_Linelike(clusterPixels, pixels, width, height) ==
  IF clusterPixels = <<>> THEN 0
  ELSE (IF p5_Neighbors(pixels, Head(clusterPixels).x, Head(clusterPixels).y,
                        width, height, 1) <= 2
        THEN 1 ELSE 0)
       + p5_Linelike(Tail(clusterPixels), pixels, width, height)

\* findClusterSize after its while loop: the ClusterInfo returned and the
\* visited set as the loop left it
p5_ClusterInfo(fill, pixels, width, height) ==
  [info |-> [size |-> fill.size,
             pixels |-> fill.clusterPixels,
             isLineShift |->
               IF Len(fill.clusterPixels) > 0
               THEN p5_Linelike(fill.clusterPixels, pixels, width, height)
                      * 100 > 80 * Len(fill.clusterPixels)
               ELSE FALSE],
   visited |-> fill.visited]

findClusterSize(pixels, startX, startY, width, height, radius, visited) ==
  p5_ClusterInfo(p5_FloodFill(pixels, width, height, radius,
                              <<[x |-> startX, y |-> startY]>>, visited,
                              <<>>, 0),
                 pixels, width, height)

RECURSIVE p5_Scan(_, _, _, _, _, _)
\* the two nested loops of checkMatch from the turn p = y * width + x on
\* (the turns that do nothing are passed over, see SkipTo)
p5_Scan(pixels, width, height, p, visited, clusterSizes) ==
  IF p >= width * height THEN clusterSizes
  ELSE LET x == p % width
           y == p \div width
           pos == (y * width + x) * 4
       IN IF p5_IsRed(pixels, pos) /\ pos \notin visited
          THEN LET clusterInfo == findClusterSize(pixels, x, y, width, height,
                                                  1, visited)
               IN p5_Scan(pixels, width, height,
                          SkipTo(pixels, p + 1, width * height),
                          clusterInfo.visited,
                          Append(clusterSizes, clusterInfo.info))
          ELSE p5_Scan(pixels, width, height,
                       SkipTo(pixels, p + 1, width * height), visited,
                       clusterSizes)

\* variant: a cluster of exactly MIN_CLUSTER_SIZE pixels does not count
p5_Counts_strict(c, MIN_CLUSTER_SIZE) ==
  ~c.isLineShift /\ c.size > MIN_CLUSTER_SIZE

\* c => !c.isLineShift && c.size >= MIN_CLUSTER_SIZE
p5_Counts(c, MIN_CLUSTER_SIZE) ==
  ~c.isLineShift /\ c.size >= MIN_CLUSTER_SIZE

\* checkMatch after its scan: the verdict and the result
p5_Result(clusterSizes, diffCount, width, height, config) ==
  LET nonLineShiftClusters ==
        SelectSeq(clusterSizes,
                  LAMBDA c : p5_Counts(c, config.MIN_CLUSTER_SIZE))
      significantDiffPixels == SumSizes(nonLineShiftClusters)
      ok == \/ diffCount = 0
            \/ significantDiffPixels = 0
            \/ /\ significantDiffPixels <= config.MAX_TOTAL_DIFF_PIXELS
               /\ Len(nonLineShiftClusters) <= 2
  IN [ok |-> ok,
      diff |-> [width |-> width, height |-> height],
      details |-> [totalDiffPixels |-> diffCount,
                   significantDiffPixels |-> significantDiffPixels,
                   clusters |-> clusterSizes]]

\* checkMatch from the diff canvas on: diff is what the diff mask provider
\* finds on the two canvases of width x height
p5_Compare(size, diff, config) ==
  IF pixelmatch(diff, size.width, size.height) = 0
  THEN [ok |-> TRUE, diff |-> [width |-> size.width, height |-> size.height]]
  ELSE p5_Result(p5_Scan(diffBufferAfter(diff, size.width, size.height),
                         size.width, size.height, 0, {}, <<>>),
                 pixelmatch(diff, size.width, size.height),
                 size.width, size.height, config)

RECURSIVE p5_ResizeEach(_, _, _)
\* the images after the loop for (const img of list) img.resize(...): each
\* turn reads the width and height the image has by then
p5_ResizeEach(imgs, list, scale) ==
  IF list = <<>> THEN imgs
  ELSE p5_ResizeEach([imgs EXCEPT
                        ![Head(list)] = p5_Resize(imgs[Head(list)], scale)],
                     Tail(list), scale)

\* the images of the sketch after the scaling and the resize loop of
\* checkMatch on the images at the places actual and expected
p5_ResizeBoth(imgs, actual, expected, MAX_SIDE) ==
  p5_ResizeEach(imgs, <<actual, expected>>,
                p5_Scale(imgs[expected], MAX_SIDE))

\* checkMatch on the images at the places actual and expected of imgs;
\* config is this.config of the P5VisualCompare, diff what the diff mask
\* provider finds on the canvases of the size expected has after the loop
checkMatch(imgs, actual, expected, config, diff) ==
  p5_Compare(p5_ResizeBoth(imgs, actual, expected, config.MAX_SIDE)[expected],
             diff, config)

(***************************************************************************)
(* Explored inputs.                                                        *)
(***************************************************************************)
\* the config argument of new P5VisualCompare(...)
P5Configs ==
  { NoOptions,
    [MAX_SIDE |-> 2, MAX_TOTAL_DIFF_PIXELS |-> 3],
    [MAX_SIDE |-> 2, MIN_CLUSTER_SIZE |-> 5, MAX_TOTAL_DIFF_PIXELS |-> 3],
    [MAX_SIDE |-> 3, MIN_CLUSTER_SIZE |-> 3, MAX_TOTAL_DIFF_PIXELS |-> 5],
    [MAX_SIDE |-> 3, MAX_TOTAL_DIFF_PIXELS |-> 4] }

\* the p5.Image objects a sketch holds before its first call of checkMatch
P5Images ==
  { <<p5_Image(2, 1)>>, <<p5_Image(1, 1)>>,
    <<p5_Image(2, 1), p5_Image(1, 1)>>,
    <<p5_Image(2, 1), p5_Image(2, 1)>>,
    <<p5_Image(2, 1), p5_Image(1, 2)>> }

\* the files --baseline and --comparison may name
CliFiles ==
  { NotGiven, MissingFile, EncodedBuffer(1, 1), EncodedBuffer(2, 1),
    EncodedBuffer(1, 2), EncodedBuffer(2, 2) }

\* --threshold, 0.1 when it is not given
CliThresholds == { 10, 50 }

\* the command lines of the tool
CliArgs ==
  [version : BOOLEAN, help : BOOLEAN, baseline : CliFiles,
   comparison : CliFiles, threshold : CliThresholds]

\* arguments of new VisualComparisonEngine(...)
CtorOptions ==
  { NoOptions,
    [maxSide |-> 1],
    [maxSide |-> 2, minClusterSize |-> 1, lineShiftThreshold |-> 100,
     maxSignificantClusters |-> 1, maxTotalDiffPixels |-> 3],
    [maxSide |-> 2, minClusterSize |-> 2, maxTotalDiffPixels |-> 3,
     lineShiftThreshold |-> 50] }

\* per-call options of compare
CallOverrides ==
  { NoOptions,
    [maxSide |-> 3, minClusterSize |-> 2, lineShiftThreshold |-> 100,
     maxSignificantClusters |-> 1, maxTotalDiffPixels |-> 4],
    [lineShiftThreshold |-> 80, minClusterSize |-> 2],
    [minClusterSize |-> 3, maxTotalDiffPixels |-> 1,
     maxSignificantClusters |-> 0],
    [maxSide |-> 800] }

\* per-call options of batchCompare
BatchOverrides ==
  { NoOptions,
    [lineShiftThreshold |-> 80],
    [maxSide |-> 2, minClusterSize |-> 3] }

ActualImages ==
  { NullImage, StringInput, ImageData(2, 1), EncodedBuffer(1, 1) }

ExpectedImages ==
  { NullImage, StringInput, ImageData(1, 2), Canvas(100, 200), Canvas(11, 1),
    Image(2, 1, "expected.png"), Image(0, 1, "expected.png"),
    Image(1, 1, "") }
  \cup { Canvas(w, h) : w \in 0 .. MaxDim, h \in 0 .. MaxDim }

\* the pairs a batch is made of
BatchPairs ==
  { [name |-> "a", actual |-> Canvas(1, 1), expected |-> Canvas(1, 1)],
    [name |-> "b", actual |-> NullImage, expected |-> Canvas(1, 1)],
    [name |-> "c", actual |-> Canvas(1, 1), expected |-> StringInput] }

RECURSIVE SeqsUpTo(_, _)
\* the sequences over S of length at most n
SeqsUpTo(S, n) ==
  IF n = 0 THEN { <<>> }
  ELSE LET shorter == SeqsUpTo(S, n - 1)
       IN shorter \cup { Append(q, e) : q \in shorter, e \in S }

\* the arguments of the calls made while other calls are in flight
ConcOverrides == { NoOptions, [maxSide |-> 1, maxTotalDiffPixels |-> 0] }

ConcActual == { StringInput, ImageData(2, 1) }

ConcExpected == { NullImage, Canvas(1, 1), Canvas(2, 1) }

ConcBatches ==
  { <<>>,
    << [name |-> "a", actual |-> Canvas(1, 1), expected |-> Canvas(1, 1)] >>,
    << [name |-> "c", actual |-> Canvas(1, 1), expected |-> StringInput],
       [name |-> "a", actual |-> Canvas(1, 1), expected |-> Canvas(1, 1)] >> }

\* the pairs pushed onto the array of a batch in flight
PushedPairs ==
  { [name |-> "c", actual |-> Canvas(1, 1), expected |-> StringInput] }

Pixels(width, height) ==
  { [x |-> x, y |-> y] : x \in 0 .. (width - 1), y \in 0 .. (height - 1) }

\* what the diff mask provider may find on a canvas of width x height: any
\* set of its pixels
Masks(width, height) == SUBSET Pixels(width, height)

\* the pixels of the block of w x h pixels at x, y that lie on the canvas
Block(x, y, w, h, width, height) ==
  { at \in { [x |-> x + i, y |-> y + j] : i \in 0 .. (w - 1),
                                          j \in 0 .. (h - 1) } :
      at.x < width /\ at.y < height }

\* the patches the explored masks of a large canvas are made of: three
\* blocks of 2 x 2 pixels and the pixel in the far corner
Patches(width, height) ==
  { Block(0, 0, 2, 2, width, height), Block(3, 0, 2, 2, width, height),
    Block(0, 3, 2, 2, width, height),
    Block(width - 1, height - 1, 1, 1, width, height) }

\* the canvas is small enough for all its masks to be explored
IsSmall(width, height) == width <= MaxMaskSide /\ height <= MaxMaskSide

\* the masks explored for a call that runs alone: all of them on a small
\* canvas, the unions of patches on a larger one
ExploredMasks(width, height) ==
  IF IsSmall(width, height) THEN Masks(width, height)
  ELSE { UNION chosen : chosen \in SUBSET Patches(width, height) }

\* the masks explored for a call among other calls: no pixel, the first
\* pixel, and all pixels explored
FewMasks(width, height) ==
  { {}, {[x |-> 0, y |-> 0]},
    IF IsSmall(width, height) THEN Pixels(width, height)
    ELSE UNION Patches(width, height) }

\* the masks explored at the pixelmatch of a call that has processed its
\* images into processedImages; it is not reached when processImages threw
MasksFor(alone, processedImages) ==
  IF processedImages.threw THEN { {} }
  ELSE IF alone
  THEN ExploredMasks(processedImages.width, processedImages.height)
  ELSE FewMasks(processedImages.width, processedImages.height)

(***************************************************************************)
(* The calls in flight.  An async function runs from one await to the next *)
(* without a break, and between two awaits any other call may run.  frames *)
(* holds one entry per call that has begun and whose outcome the caller    *)
(* has not taken yet:                                                      *)
(*   op      "compare", "batchCompare" (of the engine), "cli" (a run of    *)
(*           the tool, with an engine of its own) or "checkMatch" (of a    *)
(*           P5VisualCompare made for the call);                           *)
(*   alone   the caller makes no other call before this one has ended;     *)
(*   asked   the arguments as the caller holds them (imagePairs is the     *)
(*           array handed to batchCompare, as it is now; actual and        *)
(*           expected of checkMatch are places in images);                 *)
(*   locals  the parameters and const declarations of the async functions  *)
(*           of the call, with at, the await the call is suspended at:     *)
(*     "awaitActual"    processImages, await this._toCanvas(actual)        *)
(*     "awaitExpected"  processImages, await this._toCanvas(expected)      *)
(*     "awaitProcess"   ImageComparator.compare, await processImages(...)  *)
(*     "awaitCompare"   engine.compare, await this.comparator.compare(...) *)
(*     "awaitTurn"      batchCompare, await this.comparator.compare(...)   *)
(*     "awaitMain"      main, await engine.compare(...)                    *)
(*     "done"           the call has ended, settled holds its outcome      *)
(*           callers holds the awaits of the functions around              *)
(*           ImageComparator.compare, from the inside out; diff is what    *)
(*           the diff mask provider found, once it has run.                *)
(* given is the argument the engine was constructed with, options its      *)
(* this.options, the object its comparator and ClusterAnalyzer hold too.   *)
(* images are the p5.Image objects a sketch holds, as they are now.        *)
(***************************************************************************)
Frame(op, alone, asked, locals) ==
  [op |-> op, alone |-> alone, asked |-> asked, locals |-> locals]

\* variant: the locals are kept in one place for all calls, where the
\* call begun last has put its own
Locals_ofLastCall(fs, k) == fs[Len(fs)].locals

\* the locals of the k-th call
Locals(fs, k) == fs[k].locals

\* ImageComparator.compare up to its first await: the options are merged,
\* the inputs validated, and processImages has called _toCanvas(actual);
\* thisOptions is this.options of the comparator
ComparatorStart(actual, expected, opts, thisOptions, callers) ==
  LET mergedOptions == Spread(thisOptions, opts)
      invalid == _validateInputs(actual, expected)
  IN [at |-> IF invalid # <<>> THEN callers[1] ELSE "awaitActual",
      callers |-> callers,
      actual |-> actual,
      expected |-> expected,
      mergedOptions |-> mergedOptions,
      actualCanvas |-> IF invalid # <<>> THEN <<>> ELSE <<_toCanvas(actual)>>,
      expectedCanvas |-> <<>>,
      processedImages |-> <<>>,
      diff |-> <<>>,
      settled |-> IF invalid # <<>>
                  THEN <<Outcome(<<>>, invalid, <<"_validateInputs">>, <<>>)>>
                  ELSE <<>>]

\* engine.compare up to its first await
StartCall(actual, expected, overrides, engineOptions) ==
  ComparatorStart(actual, expected, Spread(engineOptions, overrides),
                  engineOptions, <<"awaitCompare">>)

\* processImages from its first await to its second, or to its end when
\* _toCanvas(actual) has thrown
AfterActual(f) ==
  IF f.actualCanvas[1].threw
  THEN [f EXCEPT !.at = "awaitProcess",
                 !.processedImages = <<Threw(f.actualCanvas[1].error)>>]
  ELSE [f EXCEPT !.at = "awaitExpected",
                 !.expectedCanvas = <<_toCanvas(f.expected)>>]

\* processImages from its second await to its end
AfterExpected(f) ==
  [f EXCEPT !.at = "awaitProcess",
            !.processedImages = <<ResizeBoth(f.actualCanvas[1],
                                             f.expectedCanvas[1],
                                             f.mergedOptions)>>]

\* ImageComparator.compare from its await to its end; diff is what the
\* diff mask provider finds if it is run, thisOptions is this.options of
\* the comparator and of its ClusterAnalyzer as they are now
AfterProcess(f, diff, thisOptions) ==
  [f EXCEPT !.at = f.callers[1],
            !.diff = IF f.processedImages[1].threw THEN <<>> ELSE <<diff>>,
            !.settled = <<CompareProcessed(f.processedImages[1],
                                           f.mergedOptions, diff,
                                           thisOptions)>>]

\* engine.compare from its await to its end
AfterCompare(f) ==
  [f EXCEPT !.at = IF Len(f.callers) > 1 THEN f.callers[2] ELSE "done",
            !.settled = <<Catch(f.settled[1])>>]

\* what the diff mask provider found in the call with the locals f
FoundBy(f) == IF f.diff = <<>> THEN {} ELSE f.diff[1]

\* variant: the pairs are taken from the end of the array
StartTurn_lastPairFirst(f, imagePairs, thisOptions) ==
  IF f.idx > Len(imagePairs)
  THEN [f EXCEPT !.at = "done",
                 !.settled = <<Outcome(<<f.results>>, <<>>, <<>>, <<>>)>>]
  ELSE LET pair == imagePairs[Len(imagePairs) + 1 - f.idx]
       IN Spread(Spread(f, [pair |-> pair]),
                 ComparatorStart(pair.actual, pair.expected, f.batchOptions,
                                 thisOptions, <<"awaitTurn">>))

\* the for loop of batchCompare at the head of its turn idx: the return
\* when the array imagePairs has no element idx, else the turn up to its
\* await
StartTurn(f, imagePairs, thisOptions) ==
  IF f.idx > Len(imagePairs)
  THEN [f EXCEPT !.at = "done",
                 !.settled = <<Outcome(<<f.results>>, <<>>, <<>>, <<>>)>>]
  ELSE LET pair == imagePairs[f.idx]
       IN Spread(Spread(f, [pair |-> pair]),
                 ComparatorStart(pair.actual, pair.expected, f.batchOptions,
                                 thisOptions, <<"awaitTurn">>))

\* batchCompare up to its first await; batchOptions is its mergedOptions,
\* diffs what the diff mask provider found in the turns that have ended
batchCompare(imagePairs, overrides, engineOptions) ==
  StartTurn([at |-> "awaitTurn",
             results |-> <<>>,
             idx |-> 1,
             batchOptions |-> Spread(engineOptions, overrides),
             diffs |-> <<>>,
             diff |-> <<>>,
             settled |-> <<>>],
            imagePairs, engineOptions)

\* batchCompare from its await to the next, or to its end: the entry of
\* the turn is pushed and the loop goes on; an error that leaves the turn
\* ends the call
AfterTurn(f, imagePairs, thisOptions) ==
  LET turn == PushEntry(f.results, f.pair, f.settled[1])
  IN IF turn.thrown # <<>>
     THEN [f EXCEPT !.at = "done",
                    !.diffs = Append(@, FoundBy(f)),
                    !.settled = <<Outcome(<<>>, turn.thrown, <<>>, <<>>)>>]
     ELSE StartTurn([f EXCEPT !.results = turn.results,
                              !.idx = @ + 1,
                              !.diffs = Append(@, FoundBy(f))],
                    imagePairs, thisOptions)

\* main up to its await, or to its end when it does not come that far
main(args) ==
  LET config == [baseline |-> args.baseline,
                 comparison |-> args.comparison,
                 threshold |-> args.threshold]
      engine == Constructor([threshold |-> config.threshold])
      ended(r) == [at |-> "done", config |-> config, diff |-> <<>>,
                   settled |-> <<r>>]
  IN IF args.version
     THEN ended(Exit(NoOutcome, 0, <<"version">>, <<>>))
     ELSE IF args.help
     THEN ended(Exit(NoOutcome, 0, <<"help">>, <<>>))
     ELSE IF config.baseline.kind = "notGiven"
               \/ config.comparison.kind = "notGiven"
     THEN ended(Exit(NoOutcome, 1, <<>>,
                     <<"Error: Both --baseline and --comparison are required">>))
     ELSE IF config.baseline.kind = "missing"
     THEN ended(Caught(Outcome(<<>>,
                               <<Error(<<"Baseline file not found: ">>)>>,
                               <<>>, <<>>)))
     ELSE IF config.comparison.kind = "missing"
     THEN ended(Caught(Outcome(<<>>,
                               <<Error(<<"Comparison file not found: ">>)>>,
                               <<>>, <<>>)))
     ELSE Spread([config |-> config, engine |-> engine],
                 ComparatorStart(config.baseline, config.comparison,
                                 Spread(engine, NoOptions), engine,
                                 <<"awaitCompare", "awaitMain">>))

\* main from its await to its end
AfterMain(f) ==
  [f EXCEPT !.at = "done",
            !.settled = <<IF f.settled[1].thrown # <<>>
                          THEN Caught(f.settled[1])
                          ELSE Printed(f.settled[1], f.config)>>]

\* this.options of the comparator of the call: that of the engine, or that
\* of the engine the tool made for its run
ThisOptions(op, f, engineOptions) ==
  IF op = "cli" THEN f.engine ELSE engineOptions

\* the sequence q without its k-th element
RemoveAt(q, k) == SubSeq(q, 1, k - 1) \o SubSeq(q, k + 1, Len(q))

\* no p5.Image is held: the programs explored are callers of the engine or
\* sketches of the p5 variant, and a caller of the engine makes no p5.Image
NoSketch == images = <<>>

Init ==
  /\ given \in CtorOptions
  /\ options = Constructor(given)
  /\ frames = <<>>
  /\ images = <<>>

\* variant: the merged options of the call are kept as the options of the
\* engine
Compare_keepsOverrides ==
  /\ NoSketch
  /\ frames = <<>>
  /\ \E actual \in ActualImages, expected \in ExpectedImages,
        overrides \in CallOverrides :
       /\ frames' = <<Frame("compare", TRUE,
                            [actual |-> actual, expected |-> expected,
                             overrides |-> overrides],
                            StartCall(actual, expected, overrides, options))>>
       /\ options' = Spread(options, overrides)
  /\ UNCHANGED <<given, images>>

\* a caller calls compare with no other call in flight, and waits for it
Compare ==
  /\ NoSketch
  /\ frames = <<>>
  /\ \E actual \in ActualImages, expected \in ExpectedImages,
        overrides \in CallOverrides :
       frames' = <<Frame("compare", TRUE,
                         [actual |-> actual, expected |-> expected,
                          overrides |-> overrides],
                         StartCall(actual, expected, overrides, options))>>
  /\ UNCHANGED <<given, options, images>>

\* a caller calls compare while other calls may be suspended
Call ==
  /\ NoSketch
  /\ Len(frames) < MaxCalls
  /\ \A k \in 1 .. Len(frames) : ~frames[k].alone
  /\ \E actual \in ConcActual, expected \in ConcExpected,
        overrides \in ConcOverrides :
       frames' = Append(frames,
                        Frame("compare", FALSE,
                              [actual |-> actual, expected |-> expected,
                               overrides |-> overrides],
                              StartCall(actual, expected, overrides, options)))
  /\ UNCHANGED <<given, options, images>>

\* a caller calls batchCompare with no other call in flight, and waits
BatchCompare ==
  /\ NoSketch
  /\ frames = <<>>
  /\ \E imagePairs \in SeqsUpTo(BatchPairs, MaxPairs),
        overrides \in BatchOverrides :
       frames' = <<Frame("batchCompare", TRUE,
                         [imagePairs |-> imagePairs, overrides |-> overrides],
                         batchCompare(imagePairs, overrides, options))>>
  /\ UNCHANGED <<given, options, images>>

\* a caller calls batchCompare while other calls may be suspended
CallBatch ==
  /\ NoSketch
  /\ Len(frames) < MaxCalls
  /\ \A k \in 1 .. Len(frames) : ~frames[k].alone
  /\ \E imagePairs \in ConcBatches :
       frames' = Append(frames,
                        Frame("batchCompare", FALSE,
                              [imagePairs |-> imagePairs,
                               overrides |-> NoOptions],
                              batchCompare(imagePairs, NoOptions, options)))
  /\ UNCHANGED <<given, options, images>>

\* the caller of a batchCompare in flight pushes a pair onto the array it
\* handed over
PushPair ==
  /\ \E k \in 1 .. Len(frames), pair \in PushedPairs :
       /\ frames[k].op = "batchCompare"
       /\ Locals(frames, k).at # "done"
       /\ Len(frames[k].asked.imagePairs) < MaxPairs
       /\ frames' = [frames EXCEPT ![k].asked.imagePairs = Append(@, pair)]
  /\ UNCHANGED <<given, options, images>>

\* a run of the command-line tool, a process of its own
CliMain ==
  /\ NoSketch
  /\ frames = <<>>
  /\ \E args \in CliArgs :
       frames' = <<Frame("cli", TRUE, args, main(args))>>
  /\ UNCHANGED <<given, options, images>>

\* the frame of a call of checkMatch that has run to its end on the images
\* at the places actual and expected of imgs, with resized the images as
\* the call leaves them
P5Frame(imgs, resized, actual, expected, config, diff) ==
  Frame("checkMatch", TRUE,
        [actual |-> actual, expected |-> expected, config |-> config],
        [at |-> "done",
         scale |-> p5_Scale(imgs[expected], P5VisualCompare(config).MAX_SIDE),
         width |-> resized[expected].width,
         height |-> resized[expected].height,
         diff |-> <<diff>>,
         settled |-> <<Outcome(<<checkMatch(imgs, actual, expected,
                                            P5VisualCompare(config), diff)>>,
                               <<>>, <<>>, <<>>)>>])

\* a sketch makes its p5.Image objects (loadImage, createImage)
LoadImages ==
  /\ frames = <<>>
  /\ images = <<>>
  /\ images' \in P5Images
  /\ UNCHANGED <<given, options, frames>>

\* no image of imgs has a side above MaxCanvasSide
WithinCanvasSide(imgs) ==
  \A i \in DOMAIN imgs :
    imgs[i].width <= MaxCanvasSide /\ imgs[i].height <= MaxCanvasSide

\* the images of a sketch after one explored call of checkMatch
P5ResizedOnce ==
  { resized \in UNION { { p5_ResizeBoth(imgs, actual, expected,
                                        P5VisualCompare(config).MAX_SIDE) :
                            actual \in DOMAIN imgs, expected \in DOMAIN imgs,
                            config \in P5Configs } :
                        imgs \in P5Images } :
      WithinCanvasSide(resized) }

\* the masks explored for a call of checkMatch: those of a call that runs
\* alone on images as the sketch made them, those of a call among other
\* calls on images a call before has resized
P5Masks(imgs, width, height) ==
  IF imgs \in P5Images THEN ExploredMasks(width, height)
  ELSE FewMasks(width, height)

\* a sketch calls checkMatch on a P5VisualCompare made for the call, with
\* images it holds; checkMatch has no await and runs to its end, and the
\* images are left as its resize loop made them.  Explored are the calls
\* on images as the sketch made them and on images one call has resized,
\* without those that make an image with a side above MaxCanvasSide.
CheckMatch ==
  /\ frames = <<>>
  /\ images \in P5Images \cup P5ResizedOnce
  /\ \E actual \in DOMAIN images, expected \in DOMAIN images,
        config \in P5Configs :
       LET resized == p5_ResizeBoth(images, actual, expected,
                                    P5VisualCompare(config).MAX_SIDE)
       IN /\ WithinCanvasSide(resized)
          /\ \E diff \in P5Masks(images, resized[expected].width,
                                  resized[expected].height) :
               frames' = <<P5Frame(images, resized, actual, expected, config,
                                   diff)>>
          /\ images' = resized
  /\ UNCHANGED <<given, options>>

ResumeActual ==
  /\ \E k \in 1 .. Len(frames) :
       /\ Locals(frames, k).at = "awaitActual"
       /\ frames' = [frames EXCEPT ![k].locals = AfterActual(Locals(frames, k))]
  /\ UNCHANGED <<given, options, images>>

ResumeExpected ==
  /\ \E k \in 1 .. Len(frames) :
       /\ Locals(frames, k).at = "awaitExpected"
       /\ frames' = [frames EXCEPT
                       ![k].locals = AfterExpected(Locals(frames, k))]
  /\ UNCHANGED <<given, options, images>>

ResumeProcess ==
  /\ \E k \in 1 .. Len(frames) :
       /\ Locals(frames, k).at = "awaitProcess"
       /\ \E diff \in MasksFor(frames[k].alone,
                               Locals(frames, k).processedImages[1]) :
            frames' = [frames EXCEPT
                         ![k].locals =
                           AfterProcess(Locals(frames, k), diff,
                                        ThisOptions(frames[k].op,
                                                    Locals(frames, k),
                                                    options))]
  /\ UNCHANGED <<given, options, images>>

ResumeCompare ==
  /\ \E k \in 1 .. Len(frames) :
       /\ Locals(frames, k).at = "awaitCompare"
       /\ frames' = [frames EXCEPT
                       ![k].locals = AfterCompare(Locals(frames, k))]
  /\ UNCHANGED <<given, options, images>>

ResumeTurn ==
  /\ \E k \in 1 .. Len(frames) :
       /\ Locals(frames, k).at = "awaitTurn"
       /\ frames' = [frames EXCEPT
                       ![k].locals = AfterTurn(Locals(frames, k),
                                               frames[k].asked.imagePairs,
                                               options)]
  /\ UNCHANGED <<given, options, images>>

ResumeMain ==
  /\ \E k \in 1 .. Len(frames) :
       /\ Locals(frames, k).at = "awaitMain"
       /\ frames' = [frames EXCEPT ![k].locals = AfterMain(Locals(frames, k))]
  /\ UNCHANGED <<given, options, images>>

\* the caller takes the outcome of a call that has ended
Finish ==
  /\ \E k \in 1 .. Len(frames) :
       /\ Locals(frames, k).at = "done"
       /\ frames' = RemoveAt(frames, k)
  /\ UNCHANGED <<given, options, images>>

Next ==
  \/ Compare \/ Call \/ BatchCompare \/ CallBatch \/ PushPair
  \/ CliMain \/ LoadImages \/ CheckMatch
  \/ ResumeActual \/ ResumeExpected \/ ResumeProcess \/ ResumeCompare
  \/ ResumeTurn \/ ResumeMain \/ Finish

Spec == Init /\ [][Next]_vars

TypeOK ==
  /\ Len(frames) <= MaxCalls
  /\ \A i \in DOMAIN images :
       /\ images[i].width \in 1 .. MaxCanvasSide
       /\ images[i].height \in 1 .. MaxCanvasSide
  /\ \A k \in 1 .. Len(frames) :
       /\ frames[k].op \in {"compare", "batchCompare", "cli", "checkMatch"}
       /\ frames[k].locals.at = "done" =>
            Len(frames[k].locals.settled[1].returned)
              + Len(frames[k].locals.settled[1].thrown) <= 1

(***************************************************************************)
(* Vocabulary of the properties.                                           *)
(***************************************************************************)
Range(q) == { q[i] : i \in 1 .. Len(q) }

\* the value the cascade per-call override, then constructor argument, then
\* global default gives the key k in the call c
Resolved(c, k) ==
  IF k \in DOMAIN c.overrides THEN c.overrides[k]
  ELSE IF k \in DOMAIN given THEN given[k]
  ELSE DefaultOptions[k]

\* the calls of the operation op that have ended: call holds the arguments
\* and locals of the call with diff, what the diff mask provider found in
\* it, and outcome what the call ended in
Ended(op) ==
  { [call |-> Spread(Spread(frames[k].locals, frames[k].asked),
                     [diff |-> FoundBy(frames[k].locals),
                      alone |-> frames[k].alone]),
     outcome |-> frames[k].locals.settled[1]] :
    k \in { j \in 1 .. Len(frames) :
              frames[j].op = op /\ frames[j].locals.at = "done" } }

\* the calls of batchCompare, in flight or ended: the arguments and the
\* locals of each
Batches ==
  { Spread(frames[k].locals, frames[k].asked) :
    k \in { j \in 1 .. Len(frames) : frames[j].op = "batchCompare" } }

\* the comparisons that have handed back a ComparisonResult in this state,
\* each with its inputs, the per-call options and the pixels the diff mask
\* provider found
Comparisons ==
  { [result |-> e.outcome.returned[1], diff |-> e.call.diff,
     actual |-> e.call.actual, expected |-> e.call.expected,
     overrides |-> e.call.overrides] :
    e \in { d \in Ended("compare") : d.outcome.returned # <<>> } }
  \cup UNION { { [result |-> b.results[i], diff |-> b.diffs[i],
                  actual |-> b.imagePairs[i].actual,
                  expected |-> b.imagePairs[i].expected,
                  overrides |-> b.overrides] :
                 i \in { j \in 1 .. Len(b.results) :
                           "error" \notin DOMAIN b.results[j] } } :
               b \in Batches }

\* the places <<i, j>> of the pixel lists of the clusters cs
Slots(cs) ==
  UNION { { <<i, j>> : j \in 1 .. Len(cs[i].pixels) } : i \in 1 .. Len(cs) }

\* how often the pixel at occurs in the pixel lists of the clusters cs
Occurrences(cs, at) ==
  Cardinality({ ij \in Slots(cs) : cs[ij[1]].pixels[ij[2]] = at })

RECURSIVE SumSizesAt(_, _)
\* the sum of the sizes of the clusters cs[i], i in I
SumSizesAt(cs, I) ==
  IF I = {} THEN 0
  ELSE LET i == CHOOSE j \in I : TRUE
       IN cs[i].size + SumSizesAt(cs, I \ {i})

\* the clusters of cs that count in the call c: not a line shift, and of at
\* least the resolved minClusterSize pixels
SignificantAt(c, cs) ==
  { i \in 1 .. Len(cs) :
      ~cs[i].isLineShift /\ cs[i].size >= Resolved(c, "minClusterSize") }

(***************************************************************************)
(* Properties.                                                             *)
(***************************************************************************)
\* C1: whenever a comparison with a diff count above zero has returned, its
\* ok is true exactly if there are no significant pixels, or there are at
\* most maxTotalDiffPixels of them in at most maxSignificantClusters
\* clusters, with the limits of the configuration resolved for the call.
C1_VerdictFollowsLimits ==
  \A c \in Comparisons :
    c.result.diffCount > 0 =>
      LET analysis == c.result.details.analysis
      IN c.result.ok <=>
           \/ analysis.significantPixels = 0
           \/ /\ analysis.significantPixels <= Resolved(c, "maxTotalDiffPixels")
              /\ analysis.significantClusters
                   <= Resolved(c, "maxSignificantClusters")

\* a comparison refused although its significant pixels are within
\* maxTotalDiffPixels: the number of clusters alone decided
C1_Witness ==
  \E c \in Comparisons :
    /\ c.result.diffCount > 0
    /\ ~c.result.ok
    /\ c.result.details.analysis.significantPixels
         <= Resolved(c, "maxTotalDiffPixels")

\* C2: when the diff mask provider has run and found no differing pixel,
\* compare returns ok, zero counts and no clusters, and analyzeClusters is
\* not among the collaborators the call invoked.
C2_ZeroDiffShortCircuits ==
  /\ \A c \in Comparisons :
       c.diff = {} =>
         /\ c.result.ok
         /\ c.result.diffCount = 0
         /\ c.result.details.totalDiffPixels = 0
         /\ c.result.details.significantDiffPixels = 0
         /\ c.result.details.clusters = <<>>
  /\ \A e \in Ended("compare") :
       ("pixelmatch" \in Range(e.outcome.invoked) /\ e.call.diff = {}) =>
         /\ e.outcome.returned # <<>>
         /\ "analyzeClusters" \notin Range(e.outcome.invoked)

\* a compare on a canvas of several pixels, none of which differed
C2_Witness ==
  \E e \in Ended("compare") :
    /\ "pixelmatch" \in Range(e.outcome.invoked)
    /\ e.call.diff = {}
    /\ e.outcome.processed[1].width * e.outcome.processed[1].height > 1

\* C3: the pixel lists of the clusters of a returned comparison hold every
\* differing pixel of the canvas exactly once and no other pixel.
C3_ClustersPartitionDiff ==
  \A c \in Comparisons :
    LET cs == c.result.details.clusters
    IN /\ \A at \in c.diff : Occurrences(cs, at) = 1
       /\ \A ij \in Slots(cs) : cs[ij[1]].pixels[ij[2]] \in c.diff

\* several clusters, one of them of four pixels or more
C3_Witness ==
  \E c \in Comparisons :
    LET cs == c.result.details.clusters
    IN /\ Len(cs) >= 2
       /\ \E i \in 1 .. Len(cs) : cs[i].size >= 4

\* C4: in the analysis of a returned comparison, significantClusters is the
\* number of clusters that are no line shift and have at least
\* minClusterSize pixels, significantPixels the sum of their sizes,
\* totalClusters the number of all clusters, and the result reports that
\* significantPixels as details.significantDiffPixels.
C4_SignificanceCounts ==
  \A c \in Comparisons :
    c.result.diffCount > 0 =>
      LET analysis == c.result.details.analysis
          cs == analysis.clusters
      IN /\ analysis.significantClusters = Cardinality(SignificantAt(c, cs))
         /\ analysis.significantPixels = SumSizesAt(cs, SignificantAt(c, cs))
         /\ analysis.totalClusters = Len(cs)
         /\ c.result.details.significantDiffPixels = analysis.significantPixels
         /\ c.result.details.clusters = cs

\* a line shift next to a cluster that counts, of exactly minClusterSize
\* pixels or more
C4_Witness ==
  \E c \in Comparisons :
    /\ c.result.diffCount > 0
    /\ LET cs == c.result.details.clusters
       IN /\ \E i \in 1 .. Len(cs) : cs[i].isLineShift
          /\ SignificantAt(c, cs) # {}
          /\ c.result.details.analysis.totalClusters
               > c.result.details.analysis.significantClusters

\* C5: a returned comparison never reports more significant pixels than
\* differing pixels.
C5_SignificantAtMostDiff ==
  \A c \in Comparisons :
    c.result.details.significantDiffPixels <= c.result.diffCount

\* some differing pixels count and some do not
C5_Witness ==
  \E c \in Comparisons :
    /\ c.result.details.significantDiffPixels > 0
    /\ c.result.details.significantDiffPixels < c.result.diffCount

\* an argument that is no image at all
Missing(input) == input.kind = "null"

\* an argument none of the shapes _toCanvas accepts
Unsupported(input) ==
  \/ input.kind \notin {"canvas", "imageData", "buffer", "image"}
  \/ input.kind \in {"canvas", "imageData", "image"}
       /\ (input.width = 0 \/ input.height = 0)
  \/ input.kind = "image" /\ input.src = ""

\* C6: a compare call with a missing image ends in a ValidationError, not
\* in a ComparisonError, and nothing but the validation has run.
C6_ValidationErrorSurfaces ==
  \A e \in Ended("compare") :
    (Missing(e.call.actual) \/ Missing(e.call.expected)) =>
      /\ e.outcome.thrown # <<>>
      /\ e.outcome.thrown[1].name = "ValidationError"
      /\ e.outcome.invoked = <<"_validateInputs">>

\* C7: a compare call given two images, one of which cannot be turned into
\* a canvas, ends in one ComparisonError whose cause is the error of the
\* pipeline and whose message repeats it, and returns no result; and every
\* error a compare call on two images ends in is such a ComparisonError.
C7_FailuresWrappedOnce ==
  \A e \in Ended("compare") :
    (~Missing(e.call.actual) /\ ~Missing(e.call.expected)) =>
      /\ (Unsupported(e.call.actual) \/ Unsupported(e.call.expected))
           => e.outcome.thrown # <<>>
      /\ e.outcome.thrown # <<>> =>
           /\ Len(e.outcome.thrown) = 1
           /\ e.outcome.returned = <<>>
           /\ e.outcome.thrown[1].name = "ComparisonError"
           /\ Len(e.outcome.thrown[1].cause) = 1
           /\ LET original == e.outcome.thrown[1].cause[1]
              IN /\ original.name = "Error"
                 /\ original.cause = <<>>
                 /\ original.message[1] = "Unsupported image input type: "
                 /\ e.outcome.thrown[1].message
                      = <<"Comparison failed: ">> \o original.message

\* a compare call on a good actual image and a canvas of width zero
C7_Witness ==
  \E e \in Ended("compare") :
    /\ ~Unsupported(e.call.actual)
    /\ e.call.expected.kind = "canvas"
    /\ e.call.expected.width = 0
    /\ e.outcome.thrown # <<>>

\* the message of the error the comparison of a failing pair throws
FailureMessage(pair) ==
  IF Missing(pair.actual) \/ Missing(pair.expected)
  THEN <<"Both actual and expected images are required">>
  ELSE <<"Unsupported image input type: ",
         IF Unsupported(pair.actual) THEN TypeOf(pair.actual)
         ELSE TypeOf(pair.expected),
         ". Expected Canvas, ImageData, Buffer, or Image object.">>

PairFails(pair) == Unsupported(pair.actual) \/ Unsupported(pair.expected)

\* C8: batchCompare ends without an error and returns one entry per pair
\* of the array as it is when the call ends, in the order of the pairs and
\* under their names: name, ok false and the message for a pair whose
\* comparison throws, and for any other pair the fields compare returns for
\* that pair alone.
C8_BatchIsolatesFailures ==
  \A e \in Ended("batchCompare") :
    /\ e.outcome.thrown = <<>>
    /\ e.outcome.returned # <<>>
    /\ LET entries == e.outcome.returned[1]
           pairs == e.call.imagePairs
       IN /\ Len(entries) = Len(pairs)
          /\ \A i \in 1 .. Len(pairs) :
               /\ entries[i].name = pairs[i].name
               /\ IF PairFails(pairs[i])
                  THEN entries[i] = [name |-> pairs[i].name,
                                     ok |-> FALSE,
                                     error |-> FailureMessage(pairs[i])]
                  ELSE LET alone == compare(pairs[i].actual, pairs[i].expected,
                                            e.call.overrides, e.call.diffs[i],
                                            options)
                       IN /\ alone.returned # <<>>
                          /\ DOMAIN entries[i]
                               = {"name"} \cup DOMAIN alone.returned[1]
                          /\ \A k \in DOMAIN alone.returned[1] :
                               entries[i][k] = alone.returned[1][k]

\* a batch whose first pair fails and whose second pair differs somewhere
C8_Witness ==
  \E e \in Ended("batchCompare") :
    /\ Len(e.call.imagePairs) >= 2
    /\ PairFails(e.call.imagePairs[1])
    /\ ~PairFails(e.call.imagePairs[2])
    /\ e.call.diffs[2] # {}

\* the scale factor <<numerator, denominator>> for an expected image:
\* maxSide over the longer side, twice that unless the image is square
ScaleOf(expected, maxSide) ==
  <<maxSide * (IF expected.width = expected.height THEN 1 ELSE 2),
    Max(expected.width, expected.height)>>

\* the pixels of the cluster that have at most two differing pixels among
\* their eight neighbours
LinelikeAt(cluster, diff) ==
  { j \in 1 .. Len(cluster.pixels) :
      LET at == cluster.pixels[j]
      IN Cardinality({ q \in diff :
                         /\ q # at
                         /\ q.x - at.x \in {-1, 0, 1}
                         /\ q.y - at.y \in {-1, 0, 1} }) <= 2 }

\* C9: in every comparison each key acts with the value of the cascade
\* per-call override, then engine instance, then global default: maxSide in
\* the canvas size, the line-shift ratio in the classing of the clusters,
\* minClusterSize in the count of significant clusters, maxTotalDiffPixels
\* and maxSignificantClusters in the verdict.
C9_OverridesGovern ==
  \A c \in Comparisons :
    LET scale == ScaleOf(c.expected, Resolved(c, "maxSide"))
        cs == c.result.details.clusters
    IN /\ c.result.diffImageData.width = MathCeilTimes(c.expected.width, scale)
       /\ c.result.diffImageData.height = MathCeilTimes(c.expected.height, scale)
       /\ \A i \in 1 .. Len(cs) :
            cs[i].isLineShift <=>
              Cardinality(LinelikeAt(cs[i], c.diff)) * 100
                > Resolved(c, "lineShiftThreshold") * cs[i].size
       /\ c.result.diffCount > 0 =>
            LET analysis == c.result.details.analysis
            IN /\ analysis.significantClusters = Cardinality(SignificantAt(c, cs))
               /\ c.result.ok <=>
                    \/ analysis.significantPixels = 0
                    \/ /\ analysis.significantPixels
                            <= Resolved(c, "maxTotalDiffPixels")
                       /\ analysis.significantClusters
                            <= Resolved(c, "maxSignificantClusters")

\* what holds of the code: as C9, but the line-shift ratio acts with the
\* value of the engine instance whatever the call supplies
C9_AllButLineShiftGovern ==
  \A c \in Comparisons :
    LET scale == ScaleOf(c.expected, Resolved(c, "maxSide"))
        cs == c.result.details.clusters
    IN /\ c.result.diffImageData.width = MathCeilTimes(c.expected.width, scale)
       /\ c.result.diffImageData.height = MathCeilTimes(c.expected.height, scale)
       /\ \A i \in 1 .. Len(cs) :
            cs[i].isLineShift <=>
              Cardinality(LinelikeAt(cs[i], c.diff)) * 100
                > options.lineShiftThreshold * cs[i].size
       /\ c.result.diffCount > 0 =>
            LET analysis == c.result.details.analysis
            IN /\ analysis.significantClusters = Cardinality(SignificantAt(c, cs))
               /\ c.result.ok <=>
                    \/ analysis.significantPixels = 0
                    \/ /\ analysis.significantPixels
                            <= Resolved(c, "maxTotalDiffPixels")
                       /\ analysis.significantClusters
                            <= Resolved(c, "maxSignificantClusters")

\* C10: when processImages has handed back two buffers, both have the width
\* and height of the expected image resized by the scale factor, rounded
\* up, and a data length of width * height * 4.
C10_BuffersShareCanonicalSize ==
  \A e \in Ended("compare") :
    e.outcome.processed # <<>> =>
      LET processedImages == e.outcome.processed[1]
          scale == ScaleOf(e.call.expected, Resolved(e.call, "maxSide"))
          width == MathCeilTimes(e.call.expected.width, scale)
          height == MathCeilTimes(e.call.expected.height, scale)
      IN /\ processedImages.width = width
         /\ processedImages.height = height
         /\ \A data \in {processedImages.actualImageData,
                         processedImages.expectedImageData} :
              /\ data.width = width
              /\ data.height = height
              /\ data.dataLength = width * height * 4

\* a wide actual image against a tall expected image
C10_Witness ==
  \E e \in Ended("compare") :
    /\ e.outcome.processed # <<>>
    /\ e.call.actual.width > e.call.actual.height
    /\ e.call.expected.width < e.call.expected.height
    /\ e.outcome.processed[1].width < e.outcome.processed[1].height

\* the product of the doubles lies above the exact product, and Math.ceil
\* gives one more: an expected image of 11 x 1 under maxSide 400 has the
\* scale 800 / 11 and a canvas of 801 x 73
C10_AboveExactProductReached ==
  \E e \in Ended("compare") :
    /\ e.outcome.processed # <<>>
    /\ e.call.expected.width = 11
    /\ e.call.expected.height = 1
    /\ e.outcome.processed[1].width = 801
    /\ e.outcome.processed[1].height = 73

\* min(maxSide / width, maxSide / height) of an image, as a fraction
MinOfRatios(image, maxSide) ==
  IF maxSide * image.height <= maxSide * image.width
  THEN <<maxSide, image.width>>
  ELSE <<maxSide, image.height>>

\* n is side * (num / den) rounded up, as Math.ceil gives it
IsCeilOf(n, side, num, den) == n = MathCeilTimes(side, <<num, den>>)

\* C11: when a compare call has processed its two images, the width and the
\* height of both buffers are those of the expected image times one scale
\* factor, rounded up: min(maxSide / width, maxSide / height) of the
\* expected image, twice that exactly when its width differs from its
\* height, whatever the actual image is; an expected image of 100 x 200 with
\* maxSide 800 gives the scale 8 and buffers of 800 x 1600.
C11_ScaleFromExpectedOnly ==
  \A e \in Ended("compare") :
    e.outcome.processed # <<>> =>
      LET processedImages == e.outcome.processed[1]
          least == MinOfRatios(e.call.expected, Resolved(e.call, "maxSide"))
          factor == IF e.call.expected.width # e.call.expected.height
                    THEN 2 ELSE 1
      IN /\ \A data \in {processedImages.actualImageData,
                         processedImages.expectedImageData} :
              /\ IsCeilOf(data.width, e.call.expected.width,
                          least[1] * factor, least[2])
              /\ IsCeilOf(data.height, e.call.expected.height,
                          least[1] * factor, least[2])
         /\ (e.call.expected.width = 100 /\ e.call.expected.height = 200
               /\ Resolved(e.call, "maxSide") = 800) =>
              /\ least[1] * factor = 8 * least[2]
              /\ processedImages.width = 800
              /\ processedImages.height = 1600

\* the expected image of 100 x 200 under maxSide 800, against an actual
\* image that is wider than high
C11_Witness ==
  \E e \in Ended("compare") :
    /\ e.outcome.processed # <<>>
    /\ e.call.expected.width = 100
    /\ e.call.expected.height = 200
    /\ Resolved(e.call, "maxSide") = 800
    /\ e.call.actual.width > e.call.actual.height
    /\ e.outcome.processed[1].actualImageData.height = 1600

\* C12: when a compare call has processed an expected image of
\* non-zero width and height, neither the width nor the height of the
\* buffers exceeds maxSide.
C12_WithinMaxSide ==
  \A e \in Ended("compare") :
    (e.outcome.processed # <<>>
       /\ e.call.expected.width # 0 /\ e.call.expected.height # 0) =>
      /\ e.outcome.processed[1].width <= Resolved(e.call, "maxSide")
      /\ e.outcome.processed[1].height <= Resolved(e.call, "maxSide")

\* the values of minClusterSize the analysis is repeated with
MinClusterSizes == 0 .. (MaxMaskSide + 1)

\* analyzeClusters on the diff mask of the comparison c, with the options
\* of its call but m as minClusterSize
AnalysisWith(c, m) ==
  analyzeClusters(diffBufferAfter(c.diff, c.result.diffImageData.width,
                                  c.result.diffImageData.height),
                  c.result.diffImageData.width, c.result.diffImageData.height,
                  Spread(Spread(options, c.overrides),
                         [minClusterSize |-> m]),
                  options)

\* C13: for the diff mask of every returned comparison with differing
\* pixels, analyzeClusters with a larger minClusterSize and all else the
\* same returns no more significantClusters and no more significantPixels
\* than the comparison reports, and with a smaller one no fewer.
C13_MinClusterSizeMonotone ==
  \A c \in Comparisons :
    c.result.diffCount > 0 =>
      \A m \in MinClusterSizes :
        LET analysis == c.result.details.analysis
            other == AnalysisWith(c, m)
        IN /\ m >= Resolved(c, "minClusterSize") =>
                /\ other.significantClusters <= analysis.significantClusters
                /\ other.significantPixels <= analysis.significantPixels
           /\ m <= Resolved(c, "minClusterSize") =>
                /\ other.significantClusters >= analysis.significantClusters
                /\ other.significantPixels >= analysis.significantPixels

\* two significant clusters of which a larger minClusterSize leaves one
C13_Witness ==
  \E c \in Comparisons :
    /\ c.result.diffCount > 0
    /\ c.result.details.analysis.significantClusters = 2
    /\ \E m \in MinClusterSizes :
         /\ m > Resolved(c, "minClusterSize")
         /\ AnalysisWith(c, m).significantClusters = 1
         /\ AnalysisWith(c, m).significantPixels
              < c.result.details.analysis.significantPixels

\* the differing pixels among the eight neighbours of the pixel at
DiffNeighbours(at, diff) ==
  { q \in diff : /\ q # at
                 /\ q.x - at.x \in {-1, 0, 1}
                 /\ q.y - at.y \in {-1, 0, 1} }

\* the clusters of cs whose pixels are exactly those of the set P
ClustersOn(cs, P) ==
  { i \in 1 .. Len(cs) :
      /\ Range(cs[i].pixels) = P
      /\ Len(cs[i].pixels) = Cardinality(P)
      /\ cs[i].size = Cardinality(P) }

\* C14: in every returned comparison, a differing pixel none of whose eight
\* neighbours differs is a cluster of its own, of size 1, and that cluster
\* is a line shift whenever the line-shift ratio resolved for the call is
\* below 1.0, wherever the pixel lies.
C14_IsolatedPixelIsLineShift ==
  \A c \in Comparisons :
    \A at \in c.diff :
      DiffNeighbours(at, c.diff) = {} =>
        LET cs == c.result.details.clusters
        IN /\ Cardinality(ClustersOn(cs, {at})) = 1
           /\ Resolved(c, "lineShiftThreshold") < 100 =>
                \A i \in ClustersOn(cs, {at}) : cs[i].isLineShift

\* what holds of the code: as C14, with the line-shift ratio of the engine
\* instance in place of the ratio resolved for the call (see C9)
C14_UnderInstanceRatio ==
  \A c \in Comparisons :
    \A at \in c.diff :
      DiffNeighbours(at, c.diff) = {} =>
        LET cs == c.result.details.clusters
        IN /\ Cardinality(ClustersOn(cs, {at})) = 1
           /\ \A i \in ClustersOn(cs, {at}) :
                cs[i].isLineShift <=> options.lineShiftThreshold < 100

\* the cluster is a solid filled rectangle: its pixels are all the pixels
\* of its bounding box
IsSolidRectangle(cluster) ==
  Range(cluster.pixels)
    = { [x |-> x, y |-> y] : x \in cluster.bounds.minX .. cluster.bounds.maxX,
                             y \in cluster.bounds.minY .. cluster.bounds.maxY }

\* C15: in every returned comparison with the line-shift ratio 0.8, a
\* cluster that is a solid filled rectangle of at least minClusterSize
\* pixels is no line shift, and if it has more than maxTotalDiffPixels
\* pixels the verdict is not ok.
C15_SolidRectangleCounts ==
  \A c \in Comparisons :
    LET cs == c.result.details.clusters
    IN \A i \in 1 .. Len(cs) :
         (/\ IsSolidRectangle(cs[i])
          /\ cs[i].size >= Resolved(c, "minClusterSize")
          /\ Resolved(c, "lineShiftThreshold") = 80) =>
           /\ ~cs[i].isLineShift
           /\ cs[i].size > Resolved(c, "maxTotalDiffPixels") => ~c.result.ok

\* C15 as amended: in every returned comparison with the line-shift ratio
\* 0.8, a cluster that is a solid filled rectangle at least 2 pixels wide
\* and 2 pixels high, of at least minClusterSize pixels, is no line shift,
\* and if it has more than maxTotalDiffPixels pixels the verdict is not ok.
C15_WideRectangleCounts ==
  \A c \in Comparisons :
    LET cs == c.result.details.clusters
    IN \A i \in 1 .. Len(cs) :
         (/\ IsSolidRectangle(cs[i])
          /\ cs[i].bounds.width >= 2
          /\ cs[i].bounds.height >= 2
          /\ cs[i].size >= Resolved(c, "minClusterSize")
          /\ Resolved(c, "lineShiftThreshold") = 80) =>
           /\ ~cs[i].isLineShift
           /\ cs[i].size > Resolved(c, "maxTotalDiffPixels") => ~c.result.ok

\* a rectangle of 2 x 2 pixels or more, larger than maxTotalDiffPixels,
\* under the ratio 0.8
C15_Witness ==
  \E c \in Comparisons :
    LET cs == c.result.details.clusters
    IN \E i \in 1 .. Len(cs) :
         /\ IsSolidRectangle(cs[i])
         /\ cs[i].bounds.width >= 2
         /\ cs[i].bounds.height >= 2
         /\ cs[i].size >= Resolved(c, "minClusterSize")
         /\ Resolved(c, "lineShiftThreshold") = 80
         /\ cs[i].size > Resolved(c, "maxTotalDiffPixels")
         /\ ~c.result.ok

\* the directions of a straight or diagonal line: along a row, along a
\* column, and along the two diagonals
Directions == { <<1, 0>>, <<0, 1>>, <<1, 1>>, <<1, -1>> }

\* the pixels of the line of len pixels from the pixel start in direction d
LinePixels(start, d, len) ==
  { [x |-> start.x + k * d[1], y |-> start.y + k * d[2]] : k \in 0 .. (len - 1) }

\* the lines of differing pixels of the mask diff on a canvas of width x
\* height that no other differing pixel touches
LonelyLines(diff, width, height) ==
  { P \in { LinePixels(start, d, len) :
              start \in diff, d \in Directions,
              len \in 1 .. Min(Max(width, height), Cardinality(diff)) } :
      /\ P \subseteq diff
      /\ \A at \in P : DiffNeighbours(at, diff) \subseteq P }

\* C16: in every returned comparison with the line-shift ratio 0.8, a
\* straight or diagonal line of L differing pixels, one pixel wide, that no
\* other differing pixel touches is one cluster of size L, that cluster is
\* a line shift, and it adds nothing to significantPixels.
C16_LinesAreLineShifts ==
  \A c \in Comparisons :
    Resolved(c, "lineShiftThreshold") = 80 =>
      \A P \in LonelyLines(c.diff, c.result.diffImageData.width,
                           c.result.diffImageData.height) :
        LET cs == c.result.details.clusters
        IN /\ Cardinality(ClustersOn(cs, P)) = 1
           /\ \A i \in ClustersOn(cs, P) :
                /\ cs[i].isLineShift
                /\ c.result.details.analysis.significantPixels
                     = SumSizesAt(cs, SignificantAt(c, cs) \ {i})

\* what holds of the code: as C16, for an engine instance whose line-shift
\* ratio is 0.8, whatever ratio the call supplies (see C9)
C16_UnderInstanceRatio ==
  \A c \in Comparisons :
    options.lineShiftThreshold = 80 =>
      \A P \in LonelyLines(c.diff, c.result.diffImageData.width,
                           c.result.diffImageData.height) :
        LET cs == c.result.details.clusters
        IN /\ Cardinality(ClustersOn(cs, P)) = 1
           /\ \A i \in ClustersOn(cs, P) :
                /\ cs[i].isLineShift
                /\ c.result.details.analysis.significantPixels
                     = SumSizesAt(cs, SignificantAt(c, cs) \ {i})

\* an instance of ratio 0.8 and a diagonal line of three pixels
C16_InstanceRatioReached ==
  \E c \in Comparisons :
    /\ options.lineShiftThreshold = 80
    /\ \E P \in LonelyLines(c.diff, c.result.diffImageData.width,
                            c.result.diffImageData.height) :
         /\ Cardinality(P) = 3
         /\ \E p, q \in P : p.x # q.x /\ p.y # q.y

\* a value that is there but is none of the three shapes the claim names:
\* canvas, ImageData, Buffer
UnknownShape(input) ==
  input.kind \notin {"null", "canvas", "imageData", "buffer"}

\* an image of one of the shapes _toCanvas probes for without any pixel
ZeroArea(input) ==
  /\ input.kind \in {"canvas", "imageData", "buffer", "image"}
  /\ (input.width = 0 \/ input.height = 0)

\* the names of the error a call ended in and of the error it wraps
ErrorNames(thrown) ==
  { thrown[i].name : i \in 1 .. Len(thrown) }
  \cup UNION { { thrown[i].cause[j].name : j \in 1 .. Len(thrown[i].cause) } :
               i \in 1 .. Len(thrown) }

\* C17: a compare call given two values, one of which has none of the
\* accepted shapes, ends in an UnsupportedInputError (as it is or wrapped),
\* returns nothing, and has run neither the diff nor the clustering.
C17_UnsupportedInputErrorRaised ==
  \A e \in Ended("compare") :
    (~Missing(e.call.actual) /\ ~Missing(e.call.expected)
       /\ (UnknownShape(e.call.actual) \/ UnknownShape(e.call.expected))) =>
      /\ e.outcome.thrown # <<>>
      /\ e.outcome.returned = <<>>
      /\ "UnsupportedInputError" \in ErrorNames(e.outcome.thrown)
      /\ "pixelmatch" \notin Range(e.outcome.invoked)
      /\ "analyzeClusters" \notin Range(e.outcome.invoked)

\* C18: a compare call given two images, one of which has a width or a
\* height of zero, ends in an EmptyImageError (as it is or wrapped), returns
\* no verdict, and processImages has not come as far as its scale.
C18_EmptyImageErrorRaised ==
  \A e \in Ended("compare") :
    (~Missing(e.call.actual) /\ ~Missing(e.call.expected)
       /\ (ZeroArea(e.call.actual) \/ ZeroArea(e.call.expected))) =>
      /\ e.outcome.thrown # <<>>
      /\ e.outcome.returned = <<>>
      /\ "EmptyImageError" \in ErrorNames(e.outcome.thrown)
      /\ e.outcome.processed = <<>>

\* the Default column of the Constructor Options table of the README
DocumentedDefaults ==
  [threshold |-> 10,
   maxTotalDiffPixels |-> 100,
   minClusterSize |-> 5,
   maxSignificantClusters |-> 3,
   maxSide |-> 800,
   backgroundColor |-> <<255, 255, 255, 255>>,
   includeAA |-> FALSE,
   alpha |-> 10,
   lineShiftThreshold |-> 80]

\* C19: the options of an engine constructed with no argument are the
\* defaults the README documents, field by field.
C19_DocumentedDefaultsResolved ==
  given = NoOptions =>
    /\ DOMAIN options = DOMAIN DocumentedDefaults
    /\ \A k \in DOMAIN DocumentedDefaults : options[k] = DocumentedDefaults[k]

\* what holds of the code: the fields on which an engine constructed with
\* no argument agrees with the README are includeAA, alpha and
\* lineShiftThreshold, and no other
C19_AgreesOnThreeFields ==
  given = NoOptions =>
    /\ DOMAIN options = DOMAIN DocumentedDefaults
    /\ { k \in DOMAIN options : options[k] = DocumentedDefaults[k] }
         = {"includeAA", "alpha", "lineShiftThreshold"}

\* C20: every cluster of a returned comparison is a line shift exactly if
\* the number of its pixels with at most 2 differing pixels among their
\* eight neighbours, over its size, is above the line-shift ratio resolved
\* for the call (a cluster at the ratio is none), and an empty pixel list is
\* never a line shift.
C20_LineShiftIffAboveRatio ==
  /\ \A c \in Comparisons :
       LET cs == c.result.details.clusters
       IN \A i \in 1 .. Len(cs) :
            /\ cs[i].size > 0
            /\ cs[i].isLineShift <=>
                 Cardinality({ j \in 1 .. Len(cs[i].pixels) :
                                 Cardinality(DiffNeighbours(cs[i].pixels[j],
                                                            c.diff)) <= 2 })
                   * 100 > Resolved(c, "lineShiftThreshold") * cs[i].size
  /\ \A c \in Comparisons :
       ~_detectLineShift(<<>>, diffBufferAfter(c.diff,
                                               c.result.diffImageData.width,
                                               c.result.diffImageData.height),
                         c.result.diffImageData.width,
                         c.result.diffImageData.height, options)

\* what holds of the code: as C20, with the line-shift ratio of the engine
\* instance in place of the ratio resolved for the call (see C9)
C20_UnderInstanceRatio ==
  /\ \A c \in Comparisons :
       LET cs == c.result.details.clusters
       IN \A i \in 1 .. Len(cs) :
            /\ cs[i].size > 0
            /\ cs[i].isLineShift <=>
                 Cardinality({ j \in 1 .. Len(cs[i].pixels) :
                                 Cardinality(DiffNeighbours(cs[i].pixels[j],
                                                            c.diff)) <= 2 })
                   * 100 > options.lineShiftThreshold * cs[i].size
  /\ \A c \in Comparisons :
       ~_detectLineShift(<<>>, diffBufferAfter(c.diff,
                                               c.result.diffImageData.width,
                                               c.result.diffImageData.height),
                         c.result.diffImageData.width,
                         c.result.diffImageData.height, options)

\* a cluster whose line-like pixels are exactly the ratio of the instance,
\* one half, of its pixels
C20_AtTheRatioReached ==
  \E c \in Comparisons :
    LET cs == c.result.details.clusters
    IN \E i \in 1 .. Len(cs) :
         /\ ~cs[i].isLineShift
         /\ Cardinality({ j \in 1 .. Len(cs[i].pixels) :
                            Cardinality(DiffNeighbours(cs[i].pixels[j],
                                                       c.diff)) <= 2 })
              * 100 = options.lineShiftThreshold * cs[i].size
         /\ options.lineShiftThreshold = 50

RECURSIVE Joined(_, _)
\* the pixels of the set P that a path of 8-adjacent pixels of P joins to a
\* pixel of R
Joined(P, R) ==
  LET more == R \cup { q \in P : \E r \in R : q \in DiffNeighbours(r, P) }
  IN IF more = R THEN R ELSE Joined(P, more)

\* C21: every cluster of a returned comparison is a maximal 8-connected
\* component of the differing pixels: a path of 8-adjacent pixels of the
\* cluster joins its first pixel to every other one, and every differing
\* pixel 8-adjacent to a pixel of the cluster is a pixel of that cluster.
C21_ClustersAreComponents ==
  \A c \in Comparisons :
    LET cs == c.result.details.clusters
    IN \A i \in 1 .. Len(cs) :
         LET P == Range(cs[i].pixels)
         IN /\ cs[i].pixels # <<>>
            /\ Joined(P, {cs[i].pixels[1]}) = P
            /\ \A at \in P : DiffNeighbours(at, c.diff) \subseteq P

\* two clusters, one of them two pixels that touch at a corner only
C21_Witness ==
  \E c \in Comparisons :
    LET cs == c.result.details.clusters
    IN /\ Len(cs) >= 2
       /\ \E i \in 1 .. Len(cs) :
            /\ cs[i].size = 2
            /\ cs[i].pixels[1].x # cs[i].pixels[2].x
            /\ cs[i].pixels[1].y # cs[i].pixels[2].y

\* C22: of every cluster of a returned comparison, the bounds are the least
\* and the greatest x and y of its pixels, width and height are the extent
\* from the one to the other, every pixel lies inside the bounds and the
\* size is at most width times height.
C22_BoundsEncloseCluster ==
  \A c \in Comparisons :
    LET cs == c.result.details.clusters
    IN \A i \in 1 .. Len(cs) :
         LET b == cs[i].bounds
             xs == { at.x : at \in Range(cs[i].pixels) }
             ys == { at.y : at \in Range(cs[i].pixels) }
         IN /\ b.minX \in xs /\ \A v \in xs : b.minX <= v
            /\ b.maxX \in xs /\ \A v \in xs : v <= b.maxX
            /\ b.minY \in ys /\ \A v \in ys : b.minY <= v
            /\ b.maxY \in ys /\ \A v \in ys : v <= b.maxY
            /\ b.width = b.maxX - b.minX + 1
            /\ b.height = b.maxY - b.minY + 1
            /\ \A at \in Range(cs[i].pixels) :
                 /\ at.x \in b.minX .. (b.minX + b.width - 1)
                 /\ at.y \in b.minY .. (b.minY + b.height - 1)
            /\ cs[i].size <= b.width * b.height

\* a cluster that leaves pixels of its bounding box out, and whose first
\* pixel is not at the left edge of the box
C22_Witness ==
  \E c \in Comparisons :
    LET cs == c.result.details.clusters
    IN \E i \in 1 .. Len(cs) :
         /\ cs[i].bounds.width >= 2
         /\ cs[i].bounds.height >= 2
         /\ cs[i].size < cs[i].bounds.width * cs[i].bounds.height
         /\ cs[i].pixels[1].x > cs[i].bounds.minX

\* the place of the pixel at in the row-major scan of a canvas of the width
RowMajor(at, width) == at.y * width + at.x

\* C23: in the cluster list of every returned comparison the first pixel of
\* each cluster is the pixel of the cluster that comes first in the
\* row-major scan, and the clusters follow each other in strictly
\* increasing row-major order of their first pixels.
C23_ClustersInScanOrder ==
  \A c \in Comparisons :
    LET cs == c.result.details.clusters
        width == c.result.diffImageData.width
    IN /\ \A i \in 1 .. Len(cs) :
            \A at \in Range(cs[i].pixels) :
              RowMajor(cs[i].pixels[1], width) <= RowMajor(at, width)
       /\ \A i \in 1 .. (Len(cs) - 1) :
            RowMajor(cs[i].pixels[1], width)
              < RowMajor(cs[i + 1].pixels[1], width)

\* two clusters of which the first found begins further right than the
\* second: a scan down the columns would find them the other way round
C23_Witness ==
  \E c \in Comparisons :
    LET cs == c.result.details.clusters
    IN /\ Len(cs) = 2
       /\ cs[1].pixels[1].x > cs[2].pixels[1].x
       /\ cs[1].pixels[1].y < cs[2].pixels[1].y

\* the scan of analyzeClusters on the buffer the diff mask provider wrote
\* for the comparison c, as the analyzer of the engine makes it
ScanOf(c) ==
  ScanClusters(diffBufferAfter(c.diff, c.result.diffImageData.width,
                               c.result.diffImageData.height),
               c.result.diffImageData.width, c.result.diffImageData.height,
               0, {}, <<>>, options)

\* the scan of a further call of analyzeClusters, on the buffer the scan
\* before left; its visited set is a new one
ScanAgain(c, before) ==
  ScanClusters(before.buffer, c.result.diffImageData.width,
               c.result.diffImageData.height, 0, {}, <<>>, options)

\* the arrays a and b hold the same bytes: at every index written in
\* either, and elsewhere
SameBytes(a, b) ==
  /\ a.length = b.length
  /\ a.rest = b.rest
  /\ \A i \in DOMAIN a.bytes \cup DOMAIN b.bytes : ByteAt(a, i) = ByteAt(b, i)

\* the scan first of the comparison c left the buffer as it was written,
\* and found what the comparison reports, as does a scan after it
LeftAsWritten(c, first) ==
  LET width == c.result.diffImageData.width
      height == c.result.diffImageData.height
  IN /\ SameBytes(first.buffer, diffBufferAfter(c.diff, width, height))
     /\ first.clusters = c.result.details.clusters
     /\ ScanAgain(c, first).clusters = c.result.details.clusters

\* C24: for every returned comparison with differing pixels, the scan of
\* analyzeClusters leaves every byte of the diff buffer as the diff mask
\* provider wrote it, and a second scan on the buffer the first left finds
\* the clusters the comparison reports.
C24_AnalysisLeavesBuffer ==
  \A c \in Comparisons :
    c.result.diffCount > 0 => LeftAsWritten(c, ScanOf(c))

\* a comparison whose analysis read the buffer for two clusters, one of
\* them of several pixels
C24_Witness ==
  \E c \in Comparisons :
    /\ c.result.diffCount > 0
    /\ Len(c.result.details.clusters) = 2
    /\ c.result.details.clusters[2].size >= 3
    /\ c.result.details.analysis.totalClusters = 2

\* C25: in every state the options the engine holds are those its
\* constructor made of its argument, whatever calls with whatever overrides
\* came before; so the outcome of a compare is the one an engine fresh from
\* its constructor gives for the arguments of that call alone, and a batch
\* merges its overrides into the options of the constructor.
C25_OptionsNeverMutated ==
  /\ options = Constructor(given)
  /\ \A e \in Ended("compare") :
       e.outcome = compare(e.call.actual, e.call.expected, e.call.overrides,
                           e.call.diff, Constructor(given))
  /\ \A b \in Batches :
       b.batchOptions = Spread(Constructor(given), b.overrides)

\* a compare has returned under overrides that differ from the options of
\* the engine in several keys
C25_Witness ==
  \E e \in Ended("compare") :
    /\ e.outcome.returned # <<>>
    /\ e.outcome.returned[1].diffCount > 0
    /\ Cardinality({ k \in DOMAIN e.call.overrides :
                       e.call.overrides[k] # options[k] }) >= 2

\* C26: while batchCompare runs, the comparisons that have ended are as
\* many as the entries appended, the one comparison in progress is that of
\* the pair after the last entry, and the entries are those of the first
\* pairs of the array, in its order: no pair is begun before the pair ahead
\* of it has its entry.
C26_BatchOneAtATime ==
  \A b \in Batches :
    /\ Len(b.diffs) = Len(b.results)
    /\ Len(b.results) <= Len(b.imagePairs)
    /\ b.at # "done" =>
         /\ b.idx = Len(b.results) + 1
         /\ b.pair = b.imagePairs[b.idx]
    /\ \A i \in 1 .. Len(b.results) :
         b.results[i].name = b.imagePairs[i].name

\* the first of two different pairs has failed and has its entry, the
\* comparison of the second is suspended, and no third is begun
C26_Witness ==
  \E b \in Batches :
    /\ b.at \in {"awaitActual", "awaitExpected", "awaitProcess"}
    /\ Len(b.imagePairs) = 2
    /\ b.imagePairs[1].name # b.imagePairs[2].name
    /\ b.idx = 2
    /\ Len(b.results) = 1
    /\ "error" \in DOMAIN b.results[1]

\* the positions in the buffer of the pixels of the clusters cs[j], j < i:
\* the visited set when the scan comes to the first pixel of cs[i]
VisitedBefore(cs, i, width) ==
  { (cs[ij[1]].pixels[ij[2]].y * width + cs[ij[1]].pixels[ij[2]].x) * 4 :
      ij \in { s \in Slots(cs) : s[1] < i } }

\* _findCluster as the scan calls it for the cluster cs[i] of the
\* comparison c
FindClusterAt(c, cs, i) ==
  _findCluster(diffBufferAfter(c.diff, c.result.diffImageData.width,
                               c.result.diffImageData.height),
               cs[i].pixels[1].x, cs[i].pixels[1].y,
               c.result.diffImageData.width, c.result.diffImageData.height,
               VisitedBefore(cs, i, c.result.diffImageData.width), options)

\* the call found of _findCluster gave the cluster, marked each of its
\* pixels once and no other, and put at most 1 + 8 * size entries on its
\* queue
WithinQueueBound(found, cluster, visitedBefore, width) ==
  /\ found.cluster = cluster
  /\ found.cluster.size = Len(found.cluster.pixels)
  /\ Cardinality(Range(found.cluster.pixels)) = found.cluster.size
  /\ found.visited \ visitedBefore
       = { (at.y * width + at.x) * 4 : at \in Range(found.cluster.pixels) }
  /\ found.pushes <= 1 + 8 * found.cluster.size

\* C28: for every cluster of a returned comparison, the flood fill that
\* built it came to an end having marked each pixel of the cluster once,
\* counted it once, and put no more than 1 + 8 * size entries on its queue.
C28_QueueInsertionsBounded ==
  \A c \in Comparisons :
    LET cs == c.result.details.clusters
    IN \A i \in 1 .. Len(cs) :
         WithinQueueBound(FindClusterAt(c, cs, i), cs[i],
                          VisitedBefore(cs, i, c.result.diffImageData.width),
                          c.result.diffImageData.width)

\* a flood fill of three pixels or more whose queue held more than twice
\* as many entries as the cluster has pixels: entries met again were
\* skipped
C28_Witness ==
  \E c \in Comparisons :
    LET cs == c.result.details.clusters
    IN \E i \in 1 .. Len(cs) :
         /\ cs[i].size >= 3
         /\ FindClusterAt(c, cs, i).pushes > 2 * cs[i].size

\* the bound is met: a flood fill put exactly 1 + 8 * size entries on its
\* queue (a lone pixel with all its eight neighbours on the canvas)
C28_BoundAttained ==
  \E c \in Comparisons :
    LET cs == c.result.details.clusters
    IN \E i \in 1 .. Len(cs) :
         FindClusterAt(c, cs, i).pushes = 1 + 8 * cs[i].size

\* C29: when a run of the command-line tool has processed its two images,
\* the width and height of the canvas are those of the --baseline image
\* resized by the scale factor of the --baseline image.
C29_BaselineSetsCanvas ==
  \A e \in Ended("cli") :
    e.outcome.processed # <<>> =>
      LET maxSide == Constructor([threshold |-> e.call.threshold]).maxSide
          scale == ScaleOf(e.call.baseline, maxSide)
      IN /\ e.outcome.processed[1].width
              = MathCeilTimes(e.call.baseline.width, scale)
         /\ e.outcome.processed[1].height
              = MathCeilTimes(e.call.baseline.height, scale)

\* what holds of the code: the canvas is that of the --comparison image,
\* which the tool hands to the engine as the expected image
C29_ComparisonSetsCanvas ==
  \A e \in Ended("cli") :
    e.outcome.processed # <<>> =>
      LET maxSide == Constructor([threshold |-> e.call.threshold]).maxSide
          scale == ScaleOf(e.call.comparison, maxSide)
      IN /\ e.outcome.processed[1].width
              = MathCeilTimes(e.call.comparison.width, scale)
         /\ e.outcome.processed[1].height
              = MathCeilTimes(e.call.comparison.height, scale)

\* a run of the tool on a square baseline and a wide comparison image
C29_WideComparisonReached ==
  \E e \in Ended("cli") :
    /\ e.outcome.processed # <<>>
    /\ e.call.baseline.width = e.call.baseline.height
    /\ e.call.comparison.width > e.call.comparison.height

\* the options of an engine set up as the p5 variant with this.config is:
\* line-shift ratio 0.8, at most 2 significant clusters, the minClusterSize
\* and maxTotalDiffPixels of the config
EngineLike(config) ==
  Constructor([lineShiftThreshold |-> 80,
               maxSignificantClusters |-> 2,
               minClusterSize |-> config.MIN_CLUSTER_SIZE,
               maxTotalDiffPixels |-> config.MAX_TOTAL_DIFF_PIXELS])

\* a cluster of the engine without its bounds, which the p5 variant does
\* not report
WithoutBounds(cluster) ==
  [size |-> cluster.size, pixels |-> cluster.pixels,
   isLineShift |-> cluster.isLineShift]

\* the result r of checkMatch agrees with the analysis and the verdict ok
\* of the engine; a result without details stands for no clusters
AgreesWithEngine(r, analysis, ok) ==
  /\ r.ok = ok
  /\ IF "details" \in DOMAIN r
     THEN /\ Len(r.details.clusters) = Len(analysis.clusters)
          /\ \A i \in 1 .. Len(analysis.clusters) :
               r.details.clusters[i] = WithoutBounds(analysis.clusters[i])
          /\ r.details.significantDiffPixels = analysis.significantPixels
     ELSE /\ analysis.clusters = <<>>
          /\ analysis.significantPixels = 0

\* the analysis of the ClusterAnalyzer of an engine with the options opts
\* on the diff of the call e of checkMatch
EngineAnalysis(e, opts) ==
  analyzeClusters(diffBufferAfter(e.call.diff, e.outcome.returned[1].diff.width,
                                  e.outcome.returned[1].diff.height),
                  e.outcome.returned[1].diff.width,
                  e.outcome.returned[1].diff.height, opts, opts)

\* the verdict of the engine on the analysis, under the options opts
EngineAgrees(r, analysis, opts) ==
  AgreesWithEngine(r, analysis, _evaluateSignificance(analysis, opts))

\* C30: whenever checkMatch has returned, its clusters (sizes, pixel lists,
\* isLineShift), its significantDiffPixels and its ok are those the
\* ClusterAnalyzer and _evaluateSignificance of an engine give on the same
\* diff with line-shift ratio 0.8, maxSignificantClusters 2 and the
\* MIN_CLUSTER_SIZE and MAX_TOTAL_DIFF_PIXELS of the config.
C30_P5AgreesWithEngine ==
  \A e \in Ended("checkMatch") :
    EngineAgrees(e.outcome.returned[1],
                 EngineAnalysis(e, EngineLike(P5VisualCompare(e.call.config))),
                 EngineLike(P5VisualCompare(e.call.config)))

\* checkMatch has refused a diff with a cluster of exactly MIN_CLUSTER_SIZE
\* pixels that counts and a cluster that is a line shift
C30_Witness ==
  \E e \in Ended("checkMatch") :
    /\ "details" \in DOMAIN e.outcome.returned[1]
    /\ ~e.outcome.returned[1].ok
    /\ \E i, j \in 1 .. Len(e.outcome.returned[1].details.clusters) :
         /\ e.outcome.returned[1].details.clusters[i].isLineShift
         /\ ~e.outcome.returned[1].details.clusters[j].isLineShift
         /\ e.outcome.returned[1].details.clusters[j].size
              = P5VisualCompare(e.call.config).MIN_CLUSTER_SIZE

\* checkMatch has been handed one p5.Image of 2 x 1 as actual and as
\* expected under MAX_SIDE 2: the loop has resized it twice, and the diff
\* canvas and the image are 8 x 4
C30_SameImageResizedTwice ==
  \E k \in 1 .. Len(frames) :
    /\ frames[k].op = "checkMatch"
    /\ frames[k].asked.actual = frames[k].asked.expected
    /\ frames[k].locals.scale = <<4, 2>>
    /\ frames[k].locals.settled[1].returned[1].diff
         = [width |-> 8, height |-> 4]
    /\ images = <<p5_Image(8, 4)>>

\* checkMatch has run on images a call before has resized: the scale is
\* that of the expected image as that call left it
C30_CalledOnResizedImages ==
  \E k \in 1 .. Len(frames) :
    /\ frames[k].op = "checkMatch"
    /\ frames[k].locals.scale = <<4, 8>>
    /\ images = <<p5_Image(2, 1)>>

\* C27: every call of compare that has settled among concurrent calls has
\* settled as a call with its arguments settles on an engine fresh from its
\* constructor with no other call about, and the options of the engine are
\* those of its constructor.
C27_ConcurrentCallsIndependent ==
  /\ options = Constructor(given)
  /\ \A k \in 1 .. Len(frames) :
       (frames[k].op = "compare" /\ ~frames[k].alone
          /\ frames[k].locals.at = "done") =>
         frames[k].locals.settled
           = <<compare(frames[k].asked.actual, frames[k].asked.expected,
                       frames[k].asked.overrides, FoundBy(frames[k].locals),
                       Constructor(given))>>

\* the call begun second has returned a result with differing pixels while
\* the call begun first, on another expected image and other options, is
\* still suspended inside processImages
C27_Witness ==
  /\ Len(frames) = 2
  /\ frames[1].op = "compare"
  /\ frames[2].op = "compare"
  /\ frames[1].locals.at = "awaitExpected"
  /\ frames[2].locals.at = "done"
  /\ frames[2].locals.settled[1].returned # <<>>
  /\ frames[2].locals.settled[1].returned[1].diffCount > 0
  /\ frames[1].asked.expected # frames[2].asked.expected
  /\ frames[1].asked.overrides # frames[2].asked.overrides

====
